---------------------------- MODULE Spec2Model ----------------------------
(***************************************************************************)
(* MSA301 3-axis accelerometer driver (msa301.py) and its calibration      *)
(* helpers (msa301extras.py), modelled as a state machine over the device  *)
(* register file and the driver object's cached fields.                    *)
(*                                                                         *)
(* Numbers.  Registers are bytes 0..255.  The driver's floating-point      *)
(* quantities are kept as exact rationals on fixed grids:                  *)
(*   scaleFactor   is held as 4096 * _scaleFactor  (range*125 / 2**12),    *)
(*   unitsFactor   is held as 2*10^7 * _unitsFactor (0.001, 0.00980665),   *)
(*   factor        is held as the reduced fraction <<n, d>> equal to       *)
(*                 4096 * 2*10^7 * _factor.                                *)
(* ustruct.pack("<b", v) of MicroPython keeps the low byte of v and does   *)
(* not check the range, so a register write stores v mod 256.              *)
(***************************************************************************)
EXTENDS Integers, Sequences, FiniteSets, TLC

VARIABLES regs, sensor, pc, last, pre, cal, left, accel, ret, soft, welford, held, threads

vars == <<regs, sensor, pc, last, pre, cal, left, accel, ret, soft, welford, held, threads>>

\* The objects beside the sensor: a SoftwareCalibration, a Welford accumulator,
\* the status objects and the callers that share the bus
beside == <<soft, welford, held, threads>>

---------------------------------------------------------------------------
(* Register addresses                                                      *)

_WHO_AM_I == \h01
_OUT_X_L == \h02
_MOT_INT == \h09
_DAT_INT == \h0A
_TAP_ACT_INT_STAT == \h0B
_ORIENT_STAT == \h0C
_RES_RANGE == \h0F
_ODR_AXISTOGGLE == \h10
_PWRMODE_BW == \h11
_SWAP_POL == \h12
_INT_SET0 == \h16
_INT_SET1 == \h17
_INT_MAP0 == \h19
_INT_MAP1 == \h1A
_INT_CFG == \h20
_INT_LAT == \h21
_FALL_DUR == \h22
_FALL_THR == \h23
_FALL_HYS == \h24
_ACTIV_DUR == \h27
_ACTIV_THR == \h28
_TAP_DUR == \h2A
_TAP_THR == \h2B
_ORIENT_INT_SETTING == \h2C
_Z_BLOCK == \h2D

axesOffsetDict == ("xOffset" :> \h38) @@ ("yOffset" :> \h39) @@ ("zOffset" :> \h3A)

PART_ID == \h13

---------------------------------------------------------------------------
(* Masks and symbolic-value tables (class attributes)                      *)

motionIntStatusDict ==
    ("orientIntStatus" :> \b01000000) @@ ("singleTapIntStatus" :> \b00100000)
    @@ ("doubleTapIntStatus" :> \b00010000) @@ ("activeIntStatus" :> \b00000100)
    @@ ("fallIntStatus" :> \b00000001)

tapActIntStatusDict ==
    ("tapSign" :> \b10000000) @@ ("tapFirstX" :> \b01000000) @@ ("tapFirstY" :> \b00100000)
    @@ ("tapFirstZ" :> \b00010000) @@ ("activeSign" :> \b00001000) @@ ("activeFirstX" :> \b00000100)
    @@ ("activeFirstY" :> \b00000010) @@ ("activeFirstZ" :> \b00000001)

_Z_ORIENT_MASK == \b01000000
_XY_ORIENT_MASK == \b00110000

_RES_MASK == \b00001100
resolutionDict == (8 :> \b00001100) @@ (10 :> \b00001000) @@ (12 :> \b00000100) @@ (14 :> \b00000000)

_RANGE_MASK == \b00000011
rangeDict == (2 :> \b00000000) @@ (4 :> \b00000001) @@ (8 :> \b00000010) @@ (16 :> \b00000011)

axesToggleDict ==
    ("xAxisDisable" :> \b10000000) @@ ("yAxisDisable" :> \b01000000) @@ ("zAxisDisable" :> \b00100000)

_ODR_MASK == \b00001111
odrDict ==
    (1 :> \b00001010) @@ (2 :> \b00001001) @@ (4 :> \b00001000) @@ (8 :> \b00000111)
    @@ (16 :> \b00000110) @@ (32 :> \b00000101) @@ (64 :> \b00000100) @@ (128 :> \b00000011)
    @@ (256 :> \b00000010) @@ (512 :> \b00000001) @@ (1024 :> \b00000000)

_PWRMODE_MASK == \b11000000
pwrModeDict == ("Normal" :> \b00000000) @@ ("LowPwr" :> \b01000000) @@ ("Suspnd" :> \b10000000)

_LOWPWR_ODR_MASK == \b00011110
lowPwrOdrDict ==
    (512 :> \b00000100) @@ (256 :> \b00000110) @@ (128 :> \b00001000) @@ (64 :> \b00001010)
    @@ (32 :> \b00001100) @@ (16 :> \b00001110) @@ (8 :> \b00010000) @@ (4 :> \b00010010)
    @@ (2 :> \b00010100)

axesSwapDict ==
    ("xAxisSwap" :> \b00001000) @@ ("yAxisSwap" :> \b00000100) @@ ("zAxisSwap" :> \b00000010)
    @@ ("xyAxesSwap" :> \b00000001)

intSet0dict ==
    ("orientIntEnable" :> \b01000000) @@ ("singleTapIntEnable" :> \b00100000)
    @@ ("doubleTapIntEnable" :> \b00010000) @@ ("activeIntZEnable" :> \b00000100)
    @@ ("activeIntYEnable" :> \b00000010) @@ ("activeIntXEnable" :> \b00000001)

intSet1dict == ("newDataIntEnable" :> \b00010000) @@ ("fallIntEnable" :> \b00001000)

intMap0dict ==
    ("orientIntMap" :> \b01000000) @@ ("singleTapIntMap" :> \b00100000)
    @@ ("doubleTapIntMap" :> \b00010000) @@ ("activeIntMap" :> \b00000100)
    @@ ("fallIntMap" :> \b00000001)

intMap1dict == ("newDataIntMap" :> \b00000001)

intPinConfigDict == ("openDrain" :> \b00000010) @@ ("highWhenActive" :> \b00000001)

_INT_RESET_MASK == \b10000000
_INT_LATSET_MASK == \b00001111
intLatchDict ==
    ("NoLatch" :> \b00000000) @@ ("250ms" :> \b00000001) @@ ("500ms" :> \b00000010)
    @@ ("1s" :> \b00000011) @@ ("2s" :> \b00000100) @@ ("4s" :> \b00000101)
    @@ ("8s" :> \b00000110) @@ ("Latch" :> \b00000111) @@ ("1ms" :> \b00001010)
    @@ ("2ms" :> \b00001011) @@ ("25ms" :> \b00001100) @@ ("50ms" :> \b00001100)
    @@ ("100ms" :> \b00001110)

_FALL_MODE_MASK == \b00000100
fallModeDict == ("SumMode" :> \b00000100) @@ ("SingleMode" :> \b00000000)
_FALL_HYST_MASK == \b00000011

_ACTIV_DUR_MASK == \b00000011

_TAP_QUIET_MASK == \b10000000
tapQuietDict == (20 :> \b10000000) @@ (30 :> \b00000000)
_TAP_SHOCK_MASK == \b01000000
tapShockDict == (70 :> \b01000000) @@ (50 :> \b00000000)
_TAP_DUR_MASK == \b00000111
tapDurDict ==
    (50 :> \b00000000) @@ (100 :> \b00000001) @@ (150 :> \b00000010) @@ (200 :> \b00000011)
    @@ (250 :> \b00000100) @@ (375 :> \b00000101) @@ (500 :> \b00000110) @@ (700 :> \b00000111)

_TAP_THR_MASK == \b00011111

_ORIENT_HYST_MASK == \b01110000
_ORIENT_BLOCK_MASK == \b00001100
zBlockModeDict == ("NoBlock" :> \b00000000) @@ ("ZaxBlock" :> \b00000100) @@ ("ZaxSlopeBlock" :> \b00001000)
_ORIENT_MODE_MASK == \b00000011
orientModeDict == ("Symmetric" :> \b00000000) @@ ("HSymmetric" :> \b00000001) @@ ("LSymmetric" :> \b00000010)

_Z_BLOCK_MASK == \b00001111

\* 2*10^7 * (0.001, 0.00980665)
unitsDict == ("G" :> 20000) @@ ("SI" :> 196133)

defaultInitDict == [sampleAveraging |-> 1, units |-> "G"]

\* The address/value table of resetAllDefaults, in the order it is written.
resetTable ==
    << <<\h0F, \h00>>, <<\h10, \h0F>>, <<\h11, \h9E>>, <<\h12, \h00>>, <<\h16, \h00>>,
       <<\h17, \h00>>, <<\h19, \h00>>, <<\h1A, \h00>>, <<\h20, \h00>>, <<\h21, \h00>>,
       <<\h22, \h09>>, <<\h23, \h30>>, <<\h24, \h01>>, <<\h27, \h00>>, <<\h28, \h14>>,
       <<\h2A, \h04>>, <<\h2B, \h0A>>, <<\h2C, \h18>>, <<\h2D, \h08>>, <<\h38, \h00>>,
       <<\h39, \h00>>, <<\h3A, \h00>> >>

---------------------------------------------------------------------------
(* Integer helpers: Python's &, |, ~ on bytes, int() and exact fractions   *)

Bit(x, i) == (x \div (2 ^ i)) % 2

\* a & b, for a and b in 0..255
BitAnd(a, b) ==
    Bit(a, 0) * Bit(b, 0) + 2 * Bit(a, 1) * Bit(b, 1) + 4 * Bit(a, 2) * Bit(b, 2)
    + 8 * Bit(a, 3) * Bit(b, 3) + 16 * Bit(a, 4) * Bit(b, 4) + 32 * Bit(a, 5) * Bit(b, 5)
    + 64 * Bit(a, 6) * Bit(b, 6) + 128 * Bit(a, 7) * Bit(b, 7)

\* a | b, for a and b in 0..255
BitOr(a, b) == a + b - BitAnd(a, b)

\* char & ~mask, for char and mask in 0..255
ClearBits(char, mask) == BitAnd(char, 255 - mask)

\* bool(x), as the integer Python compares it with (True == 1, False == 0)
PyBool(x) == IF x # 0 THEN 1 ELSE 0

\* int(n / d) for d > 0: Python's int() rounds toward zero
Trunc(n, d) == IF n >= 0 THEN n \div d ELSE -((-n) \div d)

Min(a, b) == IF a < b THEN a ELSE b

RECURSIVE GCD(_, _)
GCD(a, b) == IF b = 0 THEN a ELSE GCD(b, a % b)

\* The fraction n / d (n >= 0, d > 0) in lowest terms
Fraction(n, d) == LET g == GCD(n, d) IN <<n \div g, d \div g>>

---------------------------------------------------------------------------
(* A call in progress: s = [regs, obj, writes, reads, err].  regs is the   *)
(* device register file, obj the driver object's fields, writes and reads  *)
(* the register addresses of the bus transactions issued so far by the     *)
(* call, err the exception that ended it ("" while none was raised).       *)

NoError == ""

raise(s, exception) == [s EXCEPT !.err = exception]

\* _register_char(register): i2c.readfrom_mem(address, register, 1)[0]
_register_char_get(s, register) == [s EXCEPT !.reads = Append(@, register)]

\* _register_char(register, value): ustruct.pack("<b", value), i2c.writeto_mem
_register_char(s, register, value) ==
    [s EXCEPT !.regs[register] = value % 256, !.writes = Append(@, register)]

\* The keys the search loop can return for value: the first match in the
\* dictionary's iteration order, which the build fixes; {} stands for None.
_getKeyOfValue(value, dictionary) == {item \in DOMAIN dictionary : dictionary[item] = value}

\* A masked write that leaves the field's old bits in place
_setMaskedValueDictBased_noClear(s, address, mask, value, dictionary) ==
    IF value \in DOMAIN dictionary
    THEN LET char == BitOr(s.regs[address], dictionary[value])
         IN  _register_char(_register_char_get(s, address), address, char)
    ELSE raise(s, "AttributeError")

_setMaskedValueDictBased(s, address, mask, value, dictionary) ==
    IF value \in DOMAIN dictionary
    THEN LET char == BitOr(ClearBits(s.regs[address], mask), dictionary[value])
         IN  _register_char(_register_char_get(s, address), address, char)
    ELSE raise(s, "AttributeError")

\* The same setter as the two bus transactions it is made of.  First
\* "char = self._register_char(address)": the byte read, kept by the caller
_setMaskedValueDictBased_read(s, address) == _register_char_get(s, address)

\* A write step that fetches the register again instead of using the byte
\* its caller read
_setMaskedValueDictBased_reread(s, address, mask, value, dictionary, char) ==
    _register_char(s, address, BitOr(ClearBits(s.regs[address], mask), dictionary[value]))

\* Then "char &= ~mask; char |= dictionary[value]; self._register_char(address, char)"
_setMaskedValueDictBased_write(s, address, mask, value, dictionary, char) ==
    _register_char(s, address, BitOr(ClearBits(char, mask), dictionary[value]))

---------------------------------------------------------------------------
(* Property getters, as functions of the register file r                   *)

resolution(r) == 14 - (BitAnd(r[_RES_RANGE], _RES_MASK) \div 2)

range(r) == 2 ^ (BitAnd(r[_RES_RANGE], _RANGE_MASK) + 1)

outputDataRate(r) == 2 ^ (10 - Min(BitAnd(r[_ODR_AXISTOGGLE], _ODR_MASK), 10))

powerMode(r) == _getKeyOfValue(BitAnd(r[_PWRMODE_BW], _PWRMODE_MASK), pwrModeDict)

outputDataRateLP(r) == 2 ^ (11 - Min(BitAnd(r[_PWRMODE_BW], _LOWPWR_ODR_MASK) \div 2, 10))

intLatchConfig(r) == _getKeyOfValue(BitAnd(r[_INT_LAT], _INT_LATSET_MASK), intLatchDict)

fallMode(r) == _getKeyOfValue(PyBool(BitAnd(r[_FALL_HYS], _FALL_MODE_MASK)), fallModeDict)

tapQuietDur(r) == _getKeyOfValue(PyBool(BitAnd(r[_TAP_DUR], _TAP_QUIET_MASK)), tapQuietDict)

tapShockDur(r) == _getKeyOfValue(PyBool(BitAnd(r[_TAP_DUR], _TAP_SHOCK_MASK)), tapShockDict)

tapDur(r) == _getKeyOfValue(BitAnd(r[_TAP_DUR], _TAP_DUR_MASK), tapDurDict)

zBlockMode(r) == _getKeyOfValue(BitAnd(r[_ORIENT_INT_SETTING], _ORIENT_BLOCK_MASK), zBlockModeDict)

orientMode(r) == _getKeyOfValue(BitAnd(r[_ORIENT_INT_SETTING], _ORIENT_MODE_MASK), orientModeDict)

fallDuration(r) == (r[_FALL_DUR] + 1) * 2

fallHyst(r) == BitAnd(r[_FALL_HYS], _FALL_HYST_MASK) * 125

activeDur(r) == r[_ACTIV_DUR] + 1

\* The getters that scale by a binary fraction, as fractions in lowest terms:
\* reg * 7.8125, reg / 512, reg / 32, (reg >> 4) * 62.5, reg * 62.5
fallThreshold(r) == Fraction(r[_FALL_THR] * 125, 16)

activeThr(r) == Fraction(r[_ACTIV_THR], 512)

tapThr(r) == Fraction(r[_TAP_THR], 32)

orientHyst(r) == Fraction((r[_ORIENT_INT_SETTING] \div 16) * 125, 2)

zBlockThreshold(r) == Fraction(r[_Z_BLOCK] * 125, 2)

---------------------------------------------------------------------------
(* Driver-side properties: scaleFactor, units, sampleAveraging             *)

hasattr(s, name) == name \in s.obj.attrs

\* _scaleFactor * _unitsFactor / _sampleAveraging
combinedFactor(obj) == Fraction(obj.scaleFactor * obj.unitsFactor, obj.sampleAveraging)

scaleFactor_setter(s, value) ==
    LET s1 == [s EXCEPT !.obj.scaleFactor = value, !.obj.attrs = @ \cup {"_scaleFactor"}]
    IN  IF hasattr(s1, "_unitsFactor") /\ hasattr(s1, "_sampleAveraging")
        THEN [s1 EXCEPT !.obj.factor = combinedFactor(s1.obj), !.obj.attrs = @ \cup {"_factor"}]
        ELSE s1

units_setter(s, value) ==
    IF value \in DOMAIN unitsDict
    THEN LET s1 == [s EXCEPT !.obj.unitsFactor = unitsDict[value], !.obj.units = value,
                             !.obj.attrs = @ \cup {"_unitsFactor", "_units"}]
         IN  IF hasattr(s1, "_scaleFactor") /\ hasattr(s1, "_sampleAveraging")
             THEN [s1 EXCEPT !.obj.factor = combinedFactor(s1.obj), !.obj.attrs = @ \cup {"_factor"}]
             ELSE s1
    ELSE raise(s, "ValueError")

\* A sampleAveraging setter that leaves the combined factor as it was
sampleAveraging_setter_stale(s, Nsamples) ==
    IF ~(Nsamples > 0)
    THEN raise(s, "ValueError")
    ELSE [s EXCEPT !.obj.sampleAveraging = Nsamples, !.obj.attrs = @ \cup {"_sampleAveraging"}]

\* Nsamples is an integer here: the isinstance(Nsamples, int) test is true
sampleAveraging_setter(s, Nsamples) ==
    IF ~(Nsamples > 0)
    THEN raise(s, "ValueError")
    ELSE LET s1 == [s EXCEPT !.obj.sampleAveraging = Nsamples,
                             !.obj.attrs = @ \cup {"_sampleAveraging"}]
         IN  IF hasattr(s1, "_scaleFactor") /\ hasattr(s1, "_unitsFactor")
             THEN [s1 EXCEPT !.obj.factor = combinedFactor(s1.obj), !.obj.attrs = @ \cup {"_factor"}]
             ELSE s1

---------------------------------------------------------------------------
(* Register property setters                                               *)

resolution_setter(s, value) ==
    _setMaskedValueDictBased(s, _RES_RANGE, _RES_MASK, value, resolutionDict)

\* A range setter that refreshes scaleFactor before the value is validated
range_setter_scaleFirst(s, value) ==
    _setMaskedValueDictBased(scaleFactor_setter(s, value * 125), _RES_RANGE, _RANGE_MASK, value, rangeDict)

\* scaleFactor = (value*125)/2**12, held as 4096 times that
range_setter(s, value) ==
    LET s1 == _setMaskedValueDictBased(s, _RES_RANGE, _RANGE_MASK, value, rangeDict)
    IN  IF s1.err # NoError THEN s1 ELSE scaleFactor_setter(s1, value * 125)

outputDataRate_setter(s, value) ==
    _setMaskedValueDictBased(s, _ODR_AXISTOGGLE, _ODR_MASK, value, odrDict)

powerMode_setter(s, value) ==
    _setMaskedValueDictBased(s, _PWRMODE_BW, _PWRMODE_MASK, value, pwrModeDict)

outputDataRateLP_setter(s, value) ==
    _setMaskedValueDictBased(s, _PWRMODE_BW, _LOWPWR_ODR_MASK, value, lowPwrOdrDict)

intLatchConfig_setter(s, value) ==
    _setMaskedValueDictBased(s, _INT_LAT, _INT_LATSET_MASK, value, intLatchDict)

intLatchReset(s) ==
    _register_char(_register_char_get(s, _INT_LAT), _INT_LAT,
                   BitOr(s.regs[_INT_LAT], _INT_RESET_MASK))

\* fallDurationMS in whole ms
fallDuration_setter(s, fallDurationMS) ==
    IF fallDurationMS < 2 \/ fallDurationMS >= 514
    THEN raise(s, "ValueError")
    ELSE _register_char(s, _FALL_DUR, Trunc(fallDurationMS, 2) - 1)

\* A fallThreshold setter that accepts 2000 mg
fallThreshold_setter_closed(s, fallThresholdMG) ==
    IF fallThresholdMG < 0 \/ fallThresholdMG > 2000
    THEN raise(s, "ValueError")
    ELSE _register_char(s, _FALL_THR, Trunc(fallThresholdMG * 16, 125))

\* fallThresholdMG in whole mg; int(mg / 7.8125) = int(16 mg / 125)
fallThreshold_setter(s, fallThresholdMG) ==
    IF fallThresholdMG < 0 \/ ~(fallThresholdMG < 2000)
    THEN raise(s, "ValueError")
    ELSE _register_char(s, _FALL_THR, Trunc(fallThresholdMG * 16, 125))

fallMode_setter(s, value) ==
    _setMaskedValueDictBased(s, _FALL_HYS, _FALL_MODE_MASK, value, fallModeDict)

fallHyst_setter(s, fallHystMG) ==
    IF fallHystMG % 125 # 0 \/ fallHystMG < 0 \/ fallHystMG > 375
    THEN raise(s, "ValueError")
    ELSE LET char == BitOr(ClearBits(s.regs[_FALL_HYS], _FALL_HYST_MASK), fallHystMG \div 125)
         IN  _register_char(_register_char_get(s, _FALL_HYS), _FALL_HYS, char)

activeDur_setter(s, activeDurMS) ==
    IF activeDurMS < 1 \/ activeDurMS > 4
    THEN raise(s, "ValueError")
    ELSE _register_char(s, _ACTIV_DUR, activeDurMS - 1)

\* value = n / 1024 of the range; the test value >= 0.5 is 2 n >= 1024
activeThr_setter(s, n) ==
    IF n < 0 \/ 2 * n >= 1024
    THEN raise(s, "ValueError")
    ELSE _register_char(s, _ACTIV_THR, Trunc(n * 512, 1024))

tapQuietDur_setter(s, value) ==
    _setMaskedValueDictBased(s, _TAP_DUR, _TAP_QUIET_MASK, value, tapQuietDict)

tapShockDur_setter(s, value) ==
    _setMaskedValueDictBased(s, _TAP_DUR, _TAP_SHOCK_MASK, value, tapShockDict)

tapDur_setter(s, value) ==
    _setMaskedValueDictBased(s, _TAP_DUR, _TAP_DUR_MASK, value, tapDurDict)

\* value = n / 1024 of the range
tapThr_setter(s, n) ==
    IF n < 0 \/ n >= 1024
    THEN raise(s, "ValueError")
    ELSE _register_char(s, _TAP_THR, Trunc(n * 32, 1024))

\* orientHystMG in whole mg; int(mg * 0.016) = int(16 mg / 1000), shifted << 4
orientHyst_setter(s, orientHystMG) ==
    IF orientHystMG < 0 \/ orientHystMG >= 500
    THEN raise(s, "ValueError")
    ELSE LET char == BitOr(ClearBits(s.regs[_ORIENT_INT_SETTING], _ORIENT_HYST_MASK),
                           Trunc(orientHystMG * 16, 1000) * 16)
         IN  _register_char(_register_char_get(s, _ORIENT_INT_SETTING), _ORIENT_INT_SETTING, char)

zBlockMode_setter(s, value) ==
    _setMaskedValueDictBased(s, _ORIENT_INT_SETTING, _ORIENT_BLOCK_MASK, value, zBlockModeDict)

orientMode_setter(s, value) ==
    _setMaskedValueDictBased(s, _ORIENT_INT_SETTING, _ORIENT_MODE_MASK, value, orientModeDict)

\* zBlockThrMG in whole mg; int(mg / 62.5) = int(2 mg / 125)
zBlockThreshold_setter(s, zBlockThrMG) ==
    IF zBlockThrMG < 0 \/ zBlockThrMG >= 1000
    THEN raise(s, "ValueError")
    ELSE _register_char(s, _Z_BLOCK, Trunc(zBlockThrMG * 2, 125))

---------------------------------------------------------------------------
(* Keyword-argument operations.  kwargs is the sequence of the call's      *)
(* keyword arguments in the order kwargs.items() yields them, each a       *)
(* record [key, value, isbool]: isbool is isinstance(value, bool).         *)

\* The loop "for key, value in kwargs.items()" of _dynamicBitwiseUpdate;
\* acc = [settingMask, setting, err]
RECURSIVE collectSetting(_, _, _)
collectSetting(dictArr, kwargs, acc) ==
    IF kwargs = <<>> \/ acc.err # NoError
    THEN acc
    ELSE LET key == Head(kwargs).key
             value == Head(kwargs).value
             found == {i \in 1..Len(dictArr) : key \in DOMAIN dictArr[i]}
         IN  IF ~Head(kwargs).isbool
             THEN [acc EXCEPT !.err = "ValueError"]
             ELSE IF found = {}
                  THEN [acc EXCEPT !.err = "AttributeError"]
                  ELSE LET i == CHOOSE j \in found : \A k \in found : j <= k
                           bit == dictArr[i][key]
                       IN  collectSetting(dictArr, Tail(kwargs),
                               [acc EXCEPT !.settingMask[i] = BitOr(@, bit),
                                           !.setting[i] = BitOr(@, IF value THEN bit ELSE 0)])

\* The write loop without "char &= ~settingMask[i]"
RECURSIVE writeSetting_noClear(_, _, _, _)
writeSetting_noClear(s, addrArr, acc, i) ==
    IF i > Len(addrArr)
    THEN s
    ELSE IF acc.settingMask[i] # 0
         THEN LET char == BitOr(s.regs[addrArr[i]], acc.setting[i])
              IN  writeSetting_noClear(_register_char(_register_char_get(s, addrArr[i]), addrArr[i], char),
                                       addrArr, acc, i + 1)
         ELSE writeSetting_noClear(s, addrArr, acc, i + 1)

\* The loop "for i in range(nBytes): if settingMask[i]: ..." from byte i on
RECURSIVE writeSetting(_, _, _, _)
writeSetting(s, addrArr, acc, i) ==
    IF i > Len(addrArr)
    THEN s
    ELSE IF acc.settingMask[i] # 0
         THEN LET char == BitOr(ClearBits(s.regs[addrArr[i]], acc.settingMask[i]), acc.setting[i])
              IN  writeSetting(_register_char(_register_char_get(s, addrArr[i]), addrArr[i], char),
                               addrArr, acc, i + 1)
         ELSE writeSetting(s, addrArr, acc, i + 1)

\* A query that reads the first register only
readSetting_first(s, addrArr, i) == _register_char_get(s, addrArr[1])

\* The else branch: one read of each governing register
RECURSIVE readSetting(_, _, _)
readSetting(s, addrArr, i) ==
    IF i > Len(addrArr) THEN s ELSE readSetting(_register_char_get(s, addrArr[i]), addrArr, i + 1)

\* An update that reads the governing registers before it checks the keywords
_dynamicBitwiseUpdate_readFirst(s, dictArr, addrArr, kwargs) ==
    IF kwargs # <<>>
    THEN LET zero == [i \in 1..Len(dictArr) |-> 0]
             acc == collectSetting(dictArr, kwargs, [settingMask |-> zero, setting |-> zero, err |-> NoError])
         IN  IF acc.err # NoError
             THEN raise(readSetting(s, addrArr, 1), acc.err)
             ELSE writeSetting(s, addrArr, acc, 1)
    ELSE readSetting(s, addrArr, 1)

_dynamicBitwiseUpdate(s, dictArr, addrArr, kwargs) ==
    IF kwargs # <<>>
    THEN LET zero == [i \in 1..Len(dictArr) |-> 0]
             acc == collectSetting(dictArr, kwargs, [settingMask |-> zero, setting |-> zero, err |-> NoError])
         IN  IF acc.err # NoError THEN raise(s, acc.err) ELSE writeSetting(s, addrArr, acc, 1)
    ELSE readSetting(s, addrArr, 1)

\* The object the no-argument form returns: every flag of every dictionary
flagsOf(r, dictArr, addrArr) ==
    [key \in UNION {DOMAIN dictArr[i] : i \in 1..Len(dictArr)} |->
        LET i == CHOOSE j \in 1..Len(dictArr) : key \in DOMAIN dictArr[j]
        IN  BitAnd(r[addrArr[i]], dictArr[i][key]) # 0]

axesConfig(s, kwargs) ==
    _dynamicBitwiseUpdate(s, <<axesToggleDict, axesSwapDict>>, <<_ODR_AXISTOGGLE, _SWAP_POL>>, kwargs)

interruptConfig(s, kwargs) ==
    LET s1 == _dynamicBitwiseUpdate(s, <<intSet0dict, intSet1dict>>, <<_INT_SET0, _INT_SET1>>, kwargs)
        given == {k \in 1..Len(kwargs) : kwargs[k].key = "newDataIntEnable"}
    IN  IF s1.err # NoError \/ given = {}
        THEN s1
        ELSE [s1 EXCEPT !.obj.newDataIntEnable = kwargs[CHOOSE k \in given : TRUE].value]

mapInterruptsToIntPin(s, kwargs) ==
    _dynamicBitwiseUpdate(s, <<intMap0dict, intMap1dict>>, <<_INT_MAP0, _INT_MAP1>>, kwargs)

intPinConfig(s, kwargs) ==
    _dynamicBitwiseUpdate(s, <<intPinConfigDict>>, <<_INT_CFG>>, kwargs)

\* Offsets are held as 320 * mg: 3.90625 mg is 1250, the limits +-500 mg are
\* +-160000, and int(value / 3.90625) is Trunc(value, 1250).
RECURSIVE offsetCalibration_closed(_, _)
\* A validation that lets exactly 500 mg through
offsetCalibration_closed(s, kwargs) ==
    IF kwargs = <<>>
    THEN s
    ELSE LET key == Head(kwargs).key
             value == Head(kwargs).value
         IN  IF key \notin DOMAIN axesOffsetDict
             THEN raise(s, "AttributeError")
             ELSE IF value < -160000 \/ value > 160000
                  THEN raise(s, "ValueError")
                  ELSE offsetCalibration_closed(_register_char(s, axesOffsetDict[key], Trunc(value, 1250)),
                                                Tail(kwargs))

\* An offsetCalibration that rounds down instead of toward zero
RECURSIVE offsetCalibration_floor(_, _)
offsetCalibration_floor(s, kwargs) ==
    IF kwargs = <<>>
    THEN s
    ELSE LET key == Head(kwargs).key
             value == Head(kwargs).value
         IN  IF key \notin DOMAIN axesOffsetDict
             THEN raise(s, "AttributeError")
             ELSE IF value < -160000 \/ value >= 160000
                  THEN raise(s, "ValueError")
                  ELSE offsetCalibration_floor(_register_char(s, axesOffsetDict[key], value \div 1250),
                                               Tail(kwargs))

RECURSIVE offsetCalibration(_, _)
offsetCalibration(s, kwargs) ==
    IF kwargs = <<>>
    THEN s
    ELSE LET key == Head(kwargs).key
             value == Head(kwargs).value
         IN  IF key \notin DOMAIN axesOffsetDict
             THEN raise(s, "AttributeError")
             ELSE IF value < -160000 \/ value >= 160000
                  THEN raise(s, "ValueError")
                  ELSE offsetCalibration(_register_char(s, axesOffsetDict[key], Trunc(value, 1250)),
                                         Tail(kwargs))

\* The object offsetCalibration() returns when called without arguments
hardwareOffsets(r) ==
    [key \in DOMAIN axesOffsetDict |->
        LET readOffset == r[axesOffsetDict[key]] * 1250
        IN  IF readOffset < 160000 THEN readOffset ELSE readOffset - 320000]

\* A reset that writes the first entry of the table only
writeTable_first(s, table, i) == _register_char(s, table[1][1], table[1][2])

RECURSIVE writeTable(_, _, _)
writeTable(s, table, i) ==
    IF i > Len(table) THEN s ELSE writeTable(_register_char(s, table[i][1], table[i][2]), table, i + 1)

resetAllDefaults(s) == writeTable(s, resetTable, 1)

---------------------------------------------------------------------------
(* Read-only properties.  The output and status registers are the device's *)
(* to change: char and data are the bytes the device answers a read with.  *)

\* A returned value: isbool is isinstance(value, bool), True held as 1
returned(isbool, value) == [isbool |-> isbool, value |-> value, none |-> FALSE]

\* A number or a truth value (True as 1, False as 0) as a returned value
scalar(value) == [scalar |-> value]

\* ustruct.unpack("<h", data)[0] of the two bytes lo, hi
unpack_h(lo, hi) == IF lo + 256 * hi >= 32768 THEN lo + 256 * hi - 65536 ELSE lo + 256 * hi

\* _register_3_words(register): one read of six bytes
_register_3_words(s, register) == [s EXCEPT !.reads = Append(@, register)]

\* A slicing that hands out the second word first
words_yxz(data) ==
    <<unpack_h(data[3], data[4]), unpack_h(data[1], data[2]), unpack_h(data[5], data[6])>>

\* The tuple _register_3_words returns for the six bytes data
words(data) == <<unpack_h(data[1], data[2]), unpack_h(data[3], data[4]), unpack_h(data[5], data[6])>>

\* A condition that reads the status register whatever the cached flag says
newDataReady_alwaysReads(s) == _register_char_get(s, _DAT_INT)

\* newDataReady: "not self._newDataIntEnable or self._register_char(_DAT_INT)";
\* the register is read only when the left operand is False
newDataReady(s) == IF s.obj.newDataIntEnable THEN _register_char_get(s, _DAT_INT) ELSE s

\* A condition that is true whatever the status register holds
newDataReady_value_ungated(obj, char) == returned(TRUE, scalar(1))

\* The value of that expression when the device answers char
newDataReady_value(obj, char) == IF ~obj.newDataIntEnable THEN returned(TRUE, scalar(1)) ELSE returned(FALSE, scalar(char))

\* The fields set on the object a status property returns
statusOf(char, dictionary) == [key \in DOMAIN dictionary |-> BitAnd(char, dictionary[key]) # 0]

motionInterrupts(s) == _register_char_get(s, _MOT_INT)

tapActivityStatus(s) == _register_char_get(s, _TAP_ACT_INT_STAT)

orientationStatus(s) == _register_char_get(s, _ORIENT_STAT)

orientationStatus_value(char) ==
    [downwardLooking |-> BitAnd(char, _Z_ORIENT_MASK) # 0,
     orientationNumber |-> BitAnd(char, _XY_ORIENT_MASK) \div 16]

\* offsetCalibration(): one read of each offset register, in the order the
\* dictionary yields them
RECURSIVE offsetCalibration_read(_, _)
offsetCalibration_read(s, keys) ==
    IF keys = <<>> THEN s
    ELSE offsetCalibration_read(_register_char_get(s, axesOffsetDict[Head(keys)]), Tail(keys))

---------------------------------------------------------------------------
(* Construction                                                            *)

\* setattr(self, key, value) for the keyword arguments the model supplies;
\* any other key stands for a name that is not a property of MSA301
setattr(s, key, value) ==
    CASE key = "units" -> units_setter(s, value)
      [] key = "sampleAveraging" -> sampleAveraging_setter(s, value)
      [] key = "scaleFactor" -> scaleFactor_setter(s, value)
      [] key = "range" -> range_setter(s, value)
      [] key = "resolution" -> resolution_setter(s, value)
      [] OTHER -> raise(s, "AttributeError")

RECURSIVE setattrs(_, _)
setattrs(s, kwargs) ==
    IF kwargs = <<>> \/ s.err # NoError
    THEN s
    ELSE setattrs(setattr(s, Head(kwargs).key, Head(kwargs).value), Tail(kwargs))

newObject ==
    [scaleFactor |-> 0, unitsFactor |-> 0, units |-> "", sampleAveraging |-> 0,
     factor |-> <<0, 1>>, newDataIntEnable |-> FALSE, attrs |-> {}]

\* A constructor that reads the range before it compares the identity byte
__init___rangeFirst(r, kwargs, defaults) ==
    LET given == {kwargs[k].key : k \in 1..Len(kwargs)}
        s0 == [regs |-> r, obj |-> newObject, writes |-> <<>>, reads |-> <<>>, err |-> NoError]
        s1 == _register_char_get(s0, _WHO_AM_I)
        s2 == scaleFactor_setter(_register_char_get(s1, _RES_RANGE), range(r) * 125)
        s3 == setattrs(s2, [k \in 1..Len(SelectSeq(defaults, LAMBDA key : key \notin given)) |->
                              LET key == SelectSeq(defaults, LAMBDA d : d \notin given)[k]
                              IN  [key |-> key, value |-> defaultInitDict[key]]])
        s4 == setattrs(s3, kwargs)
    IN  IF PART_ID # r[_WHO_AM_I]
        THEN raise(s2, "RuntimeError")
        ELSE IF s4.err # NoError
             THEN s4
             ELSE [_register_char_get(s4, _INT_SET1) EXCEPT
                      !.obj.newDataIntEnable = BitAnd(s4.regs[_INT_SET1], intSet1dict["newDataIntEnable"]) # 0,
                      !.obj.attrs = @ \cup {"_newDataIntEnable"}]

\* MSA301(i2c, **kwargs) on a device whose registers hold r.  defaults is the
\* order in which set(defaultInitDict) - set(kwargs) is iterated.
__init__(r, kwargs, defaults) ==
    LET given == {kwargs[k].key : k \in 1..Len(kwargs)}
        s0 == [regs |-> r, obj |-> newObject, writes |-> <<>>, reads |-> <<>>, err |-> NoError]
        s1 == _register_char_get(s0, _WHO_AM_I)
        s2 == scaleFactor_setter(_register_char_get(s1, _RES_RANGE), range(r) * 125)
        s3 == setattrs(s2, [k \in 1..Len(SelectSeq(defaults, LAMBDA key : key \notin given)) |->
                              LET key == SelectSeq(defaults, LAMBDA d : d \notin given)[k]
                              IN  [key |-> key, value |-> defaultInitDict[key]]])
        s4 == setattrs(s3, kwargs)
    IN  IF PART_ID # r[_WHO_AM_I]
        THEN raise(s1, "RuntimeError")
        ELSE IF s4.err # NoError
             THEN s4
             ELSE [_register_char_get(s4, _INT_SET1) EXCEPT
                      !.obj.newDataIntEnable = BitAnd(s4.regs[_INT_SET1], intSet1dict["newDataIntEnable"]) # 0,
                      !.obj.attrs = @ \cup {"_newDataIntEnable"}]

---------------------------------------------------------------------------
(* autoOffsetCalibration (msa301extras.py)                                 *)

subtractVectors(a, b) == <<a[1] - b[1], a[2] - b[2], a[3] - b[3]>>

getMatrixDet(a, b, c) ==
    a[1] * b[2] * c[3] + b[1] * c[2] * a[3] + c[1] * a[2] * b[3]
    - a[3] * b[2] * c[1] - b[3] * c[2] * a[1] - c[3] * a[2] * b[1]

\* The determinant W of getSphereCenter(p).  The four points are held as the
\* per-axis sample means in units of 1024 LSB; _factor scales all of them
\* alike, so W is zero exactly when it is zero for the scaled points.
sphereW(p) ==
    LET n == <<subtractVectors(p[2], p[1]), subtractVectors(p[3], p[1]), subtractVectors(p[4], p[1])>>
    IN  getMatrixDet(<<n[1][1], n[2][1], n[3][1]>>,
                     <<n[1][2], n[2][2], n[3][2]>>,
                     <<n[1][3], n[2][3], n[3][3]>>)

\* A midpoint that is the first end of the edge
getMidpoint_first(a, b) == <<2 * a[1], 2 * a[2], 2 * a[3]>>

\* Exact rationals <<n, d>> with d > 0, in lowest terms
Rat(n, d) ==
    LET g == GCD(IF n < 0 THEN -n ELSE n, IF d < 0 THEN -d ELSE d)
    IN  IF d < 0 THEN <<(-n) \div g, (-d) \div g>> ELSE <<n \div g, d \div g>>

RatAdd(a, b) == Rat(a[1] * b[2] + b[1] * a[2], a[2] * b[2])

RatSub(a, b) == Rat(a[1] * b[2] - b[1] * a[2], a[2] * b[2])

RatMul(a, b) == Rat(a[1] * b[1], a[2] * b[2])

\* float('nan'), and a number, as the value of a property
NaN == [nan |-> TRUE, num |-> 0, den |-> 1]

number(q) == [nan |-> FALSE, num |-> q[1], den |-> q[2]]

\* Welford.__init__
Welford == [k |-> 0, m |-> <<0, 1>>, m2 |-> <<0, 1>>]

\* An update that divides the deviation by k - 1
update_offByOne(w, x) ==
    LET k == w.k + 1
        delta == RatSub(<<x, 1>>, w.m)
        m == RatAdd(w.m, RatMul(delta, <<1, IF k = 1 THEN 1 ELSE k - 1>>))
        delta2 == RatSub(<<x, 1>>, m)
    IN  [k |-> k, m |-> m, m2 |-> RatAdd(w.m2, RatMul(delta, delta2))]

\* Welford.update(x)
update(w, x) ==
    LET k == w.k + 1
        delta == RatSub(<<x, 1>>, w.m)
        m == RatAdd(w.m, RatMul(delta, <<1, k>>))
        delta2 == RatSub(<<x, 1>>, m)
    IN  [k |-> k, m |-> m, m2 |-> RatAdd(w.m2, RatMul(delta, delta2))]

mean(w) == number(w.m)

variance(w) == IF w.k < 2 THEN NaN ELSE number(RatMul(w.m2, <<1, w.k>>))

varianceOfMean(w) == IF w.k < 2 THEN NaN ELSE number(RatMul(w.m2, <<1, w.k * (w.k - 1)>>))

scaleVector(a, f) == <<a[1] * f, a[2] * f, a[3] * f>>

\* An update that exchanges x and y before the per-axis adjustments
updateOffsets_swapFirst(r, obj, baseOffsets) ==
    LET flags == flagsOf(r, <<axesToggleDict, axesSwapDict>>, <<_ODR_AXISTOGGLE, _SWAP_POL>>)
        t0 == scaleVector(baseOffsets, obj.unitsFactor)
        t1 == IF flags["xyAxesSwap"] THEN <<t0[2], t0[1], t0[3]>> ELSE t0
    IN  <<IF flags["xAxisDisable"] THEN 0 ELSE IF flags["xAxisSwap"] THEN -t1[1] ELSE t1[1],
          IF flags["yAxisDisable"] THEN 0 ELSE IF flags["yAxisSwap"] THEN -t1[2] ELSE t1[2],
          IF flags["zAxisDisable"] THEN 0 ELSE IF flags["zAxisSwap"] THEN -t1[3] ELSE t1[3]>>

\* SoftwareCalibration.updateOffsets: the tuple stored in _offsets, from the
\* flags axesConfig() reads in registers r and the sensor's _unitsFactor
updateOffsets(r, obj, baseOffsets) ==
    LET flags == flagsOf(r, <<axesToggleDict, axesSwapDict>>, <<_ODR_AXISTOGGLE, _SWAP_POL>>)
        t0 == scaleVector(baseOffsets, obj.unitsFactor)
        t1 == IF flags["xAxisDisable"] THEN [t0 EXCEPT ![1] = 0] ELSE t0
        t2 == IF flags["yAxisDisable"] THEN [t1 EXCEPT ![2] = 0] ELSE t1
        t3 == IF flags["zAxisDisable"] THEN [t2 EXCEPT ![3] = 0] ELSE t2
        t4 == IF flags["xAxisSwap"] THEN [t3 EXCEPT ![1] = @ * (-1)] ELSE t3
        t5 == IF flags["yAxisSwap"] THEN [t4 EXCEPT ![2] = @ * (-1)] ELSE t4
        t6 == IF flags["zAxisSwap"] THEN [t5 EXCEPT ![3] = @ * (-1)] ELSE t5
    IN  IF flags["xyAxesSwap"] THEN <<t6[2], t6[1], t6[3]>> ELSE t6

\* The midpoint of a and b, held as twice its value
getMidpoint(a, b) == <<a[1] + b[1], a[2] + b[2], a[3] + b[3]>>

dotProduct(a, b) == a[1] * b[1] + a[2] * b[2] + a[3] * b[3]

\* A division that answers W = 0 with a quotient instead of an exception
getSphereCenter_unguarded(p) ==
    [err |-> NoError, value |-> [x |-> 1, y |-> 1, z |-> 1, den |-> 2 * sphereW(p)]]

\* getSphereCenter(p) for four points with integer coordinates: D comes out
\* doubled because the midpoints are, so the centre [Wx/W, Wy/W, Wz/W] is
\* value.x, value.y, value.z over the common denominator value.den = 2 W.
\* Dividing by W = 0 raises ZeroDivisionError.
getSphereCenter(p) ==
    LET n == <<subtractVectors(p[2], p[1]), subtractVectors(p[3], p[1]), subtractVectors(p[4], p[1])>>
        m == <<getMidpoint(p[1], p[2]), getMidpoint(p[1], p[3]), getMidpoint(p[1], p[4])>>
        D == <<dotProduct(n[1], m[1]), dotProduct(n[2], m[2]), dotProduct(n[3], m[3])>>
        W == sphereW(p)
        Wx == getMatrixDet(D, <<n[1][2], n[2][2], n[3][2]>>, <<n[1][3], n[2][3], n[3][3]>>)
        Wy == getMatrixDet(<<n[1][1], n[2][1], n[3][1]>>, D, <<n[1][3], n[2][3], n[3][3]>>)
        Wz == getMatrixDet(<<n[1][1], n[2][1], n[3][1]>>, <<n[1][2], n[2][2], n[3][2]>>, D)
    IN  IF W = 0
        THEN [err |-> "ZeroDivisionError", value |-> [x |-> 0, y |-> 0, z |-> 0, den |-> 0]]
        ELSE [err |-> NoError, value |-> [x |-> Wx, y |-> Wy, z |-> Wz, den |-> 2 * W]]

\* The value a getter built on _getKeyOfValue hands back: the key, or None
keyOrNone(keys) == IF keys = {} THEN "None" ELSE CHOOSE key \in keys : TRUE

\* "first keep the original settings"
keepSettings(s) ==
    [scaleFactor |-> s.obj.scaleFactor,
     units |-> s.obj.units,
     resolution |-> resolution(s.regs),
     range |-> range(s.regs),
     sampleAveraging |-> s.obj.sampleAveraging,
     newDataIntEnable |-> s.obj.newDataIntEnable,
     odr |-> outputDataRate(s.regs),
     axesConfig |-> flagsOf(s.regs, <<axesToggleDict, axesSwapDict>>, <<_ODR_AXISTOGGLE, _SWAP_POL>>),
     powerMode |-> keyOrNone(powerMode(s.regs)),
     hardwareOffsets |-> hardwareOffsets(s.regs)]

flag(key, value) == [key |-> key, value |-> value, isbool |-> TRUE]

axesOrder ==
    <<"xAxisDisable", "yAxisDisable", "zAxisDisable", "xAxisSwap", "yAxisSwap", "zAxisSwap", "xyAxesSwap">>

offsetsOrder == <<"xOffset", "yOffset", "zOffset">>

\* One call made on the sensor object by autoOffsetCalibration
perform(s, call) ==
    CASE call.op = "scaleFactor" -> scaleFactor_setter(s, call.arg)
      [] call.op = "units" -> units_setter(s, call.arg)
      [] call.op = "resolution" -> resolution_setter(s, call.arg)
      [] call.op = "range" -> range_setter(s, call.arg)
      [] call.op = "sampleAveraging" -> sampleAveraging_setter(s, call.arg)
      [] call.op = "outputDataRate" -> outputDataRate_setter(s, call.arg)
      [] call.op = "powerMode" -> powerMode_setter(s, call.arg)
      [] call.op = "axesConfig" -> axesConfig(s, call.arg)
      [] call.op = "interruptConfig" -> interruptConfig(s, call.arg)
      [] call.op = "offsetCalibration" -> offsetCalibration(s, call.arg)

\* The calls in order; an exception raised by one of them skips the rest.
\* (Each intermediate state is bound once, as a value.)
RECURSIVE performAll(_, _)
performAll(s, calls) ==
    IF calls = <<>> \/ s.err # NoError
    THEN s
    ELSE CHOOSE end \in {performAll(t, Tail(calls)) : t \in {perform(s, Head(calls))}} : TRUE

\* The settings without those of the registers, which would then still be
\* the caller's while the samples are read
calibrationSettings_late ==
    << [op |-> "units", arg |-> "G"],
       [op |-> "sampleAveraging", arg |-> 1],
       [op |-> "interruptConfig", arg |-> <<flag("newDataIntEnable", TRUE)>>] >>

\* "set settings for calibration"
calibrationSettings ==
    << [op |-> "resolution", arg |-> 14],
       [op |-> "range", arg |-> 2],
       [op |-> "units", arg |-> "G"],
       [op |-> "sampleAveraging", arg |-> 1],
       [op |-> "outputDataRate", arg |-> 1],
       [op |-> "powerMode", arg |-> "Normal"],
       [op |-> "axesConfig", arg |-> [k \in 1..7 |-> flag(axesOrder[k], FALSE)]],
       [op |-> "interruptConfig", arg |-> <<flag("newDataIntEnable", TRUE)>>],
       [op |-> "offsetCalibration", arg |-> [k \in 1..3 |-> [key |-> offsetsOrder[k], value |-> 0]]] >>

\* "Return to previous settings"
previousSettings(prev) ==
    << [op |-> "scaleFactor", arg |-> prev.scaleFactor],
       [op |-> "units", arg |-> prev.units],
       [op |-> "resolution", arg |-> prev.resolution],
       [op |-> "range", arg |-> prev.range],
       [op |-> "sampleAveraging", arg |-> prev.sampleAveraging],
       [op |-> "interruptConfig", arg |-> <<flag("newDataIntEnable", prev.newDataIntEnable)>>],
       [op |-> "outputDataRate", arg |-> prev.odr],
       [op |-> "axesConfig", arg |-> [k \in 1..7 |-> flag(axesOrder[k], prev.axesConfig[axesOrder[k]])]],
       [op |-> "powerMode", arg |-> prev.powerMode],
       [op |-> "offsetCalibration", arg |->
           [k \in 1..3 |-> [key |-> offsetsOrder[k], value |-> prev.hardwareOffsets[offsetsOrder[k]]]]] >>

\* From "epsilon = 1e-4" to the end: the sphere fit divides by W, and a zero
\* W raises ZeroDivisionError out of the function, past the restoring calls.
fitAndRestore(s, p, prev) ==
    IF sphereW(p) = 0 THEN raise(s, "ZeroDivisionError") ELSE performAll(s, previousSettings(prev))

---------------------------------------------------------------------------
(* Bounds and inputs                                                       *)

\* Calls made on a sensor in one behaviour of Spec
MaxOps == 1

\* Calls made on a sensor in one behaviour of SpecSeq
MaxCalls == 2

\* Keyword arguments of one call in SpecKw
MaxFlags == 2

\* Evaluations of the data-ready condition in one wait of acceleration
MaxPolls == 2

\* Reads of the status accessors in one behaviour
MaxReads == 2

\* Values fed to one Welford accumulator
MaxFed == 3

Addr == {_WHO_AM_I} \cup {resetTable[i][1] : i \in 1..Len(resetTable)}

\* Register contents the device may hold when the driver is bound to it
InitBytes == {\h00, \h55, \hAA, \hFF}

image(b) == [a \in Addr |-> IF a = _WHO_AM_I THEN PART_ID ELSE b]

factoryImage ==
    [a \in Addr |-> IF a = _WHO_AM_I THEN PART_ID
                    ELSE resetTable[CHOOSE i \in 1..Len(resetTable) : resetTable[i][1] = a][2]]

InitImages == {image(b) : b \in InitBytes} \cup {factoryImage}

defaultsOrders == {<<"sampleAveraging", "units">>, <<"units", "sampleAveraging">>}

\* Keyword arguments given to the constructor in SpecSeq
InitNumbers ==
    {[key |-> "sampleAveraging", value |-> 2], [key |-> "range", value |-> 4],
     [key |-> "scaleFactor", value |-> 300]}

keysOf(kwargs) == {kwargs[k].key : k \in 1..Len(kwargs)}

\* Keyword-argument lists of at most MaxFlags distinct keys drawn from items
kwargsOver(items) ==
    {kwargs \in UNION {[1..m -> items] : m \in 1..MaxFlags} : Cardinality(keysOf(kwargs)) = Len(kwargs)}

\* Boolean flags of a group, an unknown flag, and one non-boolean value
flagItems(dictArr) ==
    LET keys == UNION {DOMAIN dictArr[i] : i \in 1..Len(dictArr)}
    IN  {flag(key, value) : key \in keys, value \in BOOLEAN}
        \cup {flag("noSuchFlag", TRUE)}
        \cup {[key |-> CHOOSE key \in DOMAIN dictArr[1] : TRUE, value |-> TRUE, isbool |-> FALSE]}

\* -500.1, -500, -3.9, 0, 300, 499.9 and 500 mg, for the three axes and an
\* unknown one
offsetItems ==
    [key : DOMAIN axesOffsetDict \cup {"wOffset"}, value : {-160032, -160000, -1248, 0, 96000, 159968, 160000}]

\* Bytes the device answers a read of a status register with
StatusBytes == {\h00, \h01, \h45}

\* Six-byte answers to a read of the output registers: the words
\* (1, -2, 5) and (-2, 5, 1)
Samples == {<<1, 0, 254, 255, 5, 0>>, <<254, 255, 5, 0, 1, 0>>}

\* Register images of devices that are not an MSA301
ForeignImages == {[image(b) EXCEPT ![_WHO_AM_I] = b] : b \in InitBytes} \cup {[factoryImage EXCEPT ![_WHO_AM_I] = \h12]}

\* Values fed to a Welford accumulator
Fed == {-4, 0, 1, 2, 3}

\* Base offsets in mg, as read from calib_data.bin or assigned by the caller
Bases == {<<3, -5, 7>>, <<-40, 0, 12>>}

\* Register images with every combination of the seven axis flags
AxisImages ==
    {[factoryImage EXCEPT ![_ODR_AXISTOGGLE] = 15 + 32 * toggle, ![_SWAP_POL] = swap] :
        toggle \in 0..7, swap \in 0..15}

\* Coordinates of the points handed to getSphereCenter
Coords == {-1, 0, 2}

\* The first of the four points
Origins == {<<0, 0, 0>>, <<1, -1, 2>>}

\* The sample means of the four orientations: points of the sphere of radius
\* 16 (1 g) around the bias <<1, 1, -1>>
Readings == << <<17, 1, -1>>, <<1, 17, -1>>, <<1, 1, 15>>, <<-15, 1, -1>> >>

---------------------------------------------------------------------------
(* State: regs is the device register file, sensor the driver object,      *)
(* pc the place of the running call, last the last call made (operation,   *)
(* argument, exception, bus reads and writes), pre the registers and the   *)
(* object as the last call found them, cal the locals of a running         *)
(* autoOffsetCalibration, left the calls the behaviour may still make,     *)
(* accel the locals of a running acceleration read, ret the value the      *)
(* last call returned.                                                     *)

noCal == [prev |-> <<>>, p |-> <<>>]

\* i samples taken, x, y, z their sums, polls the evaluations of the data-ready
\* condition in the current wait, ready the last one's truth, status the byte
\* it read, served the six-byte answers of the device so far
noAcc == [i |-> 0, sum |-> <<0, 0, 0>>, polls |-> 0, ready |-> FALSE, status |-> 0, served |-> <<>>]

\* A call that returns None (or has not returned)
None == [isbool |-> FALSE, value |-> scalar(0), none |-> TRUE]

\* No SoftwareCalibration object yet; offsets are held in units of 1 / (2 * 10^7)
noSoft == [made |-> FALSE, baseOffsets |-> <<0, 0, 0>>, offsets |-> <<0, 0, 0>>]

\* No accumulator; fed lists the values handed to update so far
noWelford == [made |-> FALSE, w |-> Welford, fed |-> <<>>]

\* The three status objects __init__ creates, as the fields the accessors
\* give them (read: the accessors that have filled theirs), and the caller's
\* variables: kept names the accessors whose result the caller has stored,
\* seen the fields that result had when it was stored
noHeld ==
    LET empty == [motionInterrupts |-> statusOf(0, motionIntStatusDict),
                  tapActivityStatus |-> statusOf(0, tapActIntStatusDict),
                  orientationStatus |-> orientationStatus_value(0)]
    IN  [status |-> empty, read |-> {}, kept |-> {}, seen |-> empty]

\* Two callers that share the sensor: the first assigns resolution, the
\* second range.  at is each caller's position, char the byte it read, order
\* the callers in the order of their bus transactions
noThreads ==
    [made |-> FALSE, value |-> <<14, 2>>, at |-> <<"done", "done">>, char |-> <<0, 0>>, order |-> <<>>]

Fresh ==
    /\ soft = noSoft
    /\ welford = noWelford
    /\ held = noHeld
    /\ threads = noThreads

Constructed(r, kwargs, budget) ==
    \E defaults \in defaultsOrders :
        LET t == __init__(r, kwargs, defaults)
        IN  /\ t.err = NoError
            /\ regs = t.regs
            /\ sensor = t.obj
            /\ pc = "idle"
            /\ last = [op |-> "__init__", arg |-> kwargs, err |-> t.err, writes |-> t.writes, reads |-> t.reads]
            /\ pre = [regs |-> r, obj |-> newObject]
            /\ cal = noCal
            /\ left = budget
            /\ accel = noAcc
            /\ ret = None
            /\ Fresh

\* MSA301(i2c, **kwargs), whether it returns or raises
Bound(r, kwargs, budget) ==
    \E defaults \in defaultsOrders :
        LET t == __init__(r, kwargs, defaults)
        IN  /\ regs = t.regs
            /\ sensor = t.obj
            /\ pc = IF t.err = NoError THEN "idle" ELSE "failed"
            /\ last = [op |-> "__init__", arg |-> kwargs, err |-> t.err, writes |-> t.writes, reads |-> t.reads]
            /\ pre = [regs |-> r, obj |-> newObject]
            /\ cal = noCal
            /\ left = budget
            /\ accel = noAcc
            /\ ret = None
            /\ Fresh

Init == \E r \in InitImages : Constructed(r, <<>>, MaxOps)

\* SoftwareCalibration(sensor) on a sensor just constructed: the base offsets
\* come from calib_data.bin, or are (0, 0, 0) when the file is missing
InitSoft ==
    \E r \in AxisImages, kwargs \in {<<>>, <<[key |-> "units", value |-> "SI"]>>}, defaults \in defaultsOrders,
       data \in Bases \cup {<<0, 0, 0>>} :
        LET t == __init__(r, kwargs, defaults)
            u == axesConfig([t EXCEPT !.reads = <<>>, !.writes = <<>>], <<>>)
        IN  /\ regs = u.regs
            /\ sensor = u.obj
            /\ pc = "idle"
            /\ last = [op |-> "SoftwareCalibration", arg |-> <<>>, err |-> u.err, writes |-> u.writes, reads |-> u.reads]
            /\ pre = [regs |-> t.regs, obj |-> t.obj]
            /\ cal = noCal
            /\ left = MaxOps
            /\ accel = noAcc
            /\ ret = None
            /\ soft = [made |-> TRUE, baseOffsets |-> data, offsets |-> updateOffsets(u.regs, u.obj, data)]
            /\ welford = noWelford
            /\ held = noHeld
            /\ threads = noThreads

\* w = Welford(), beside a sensor
InitWelford ==
    \E defaults \in defaultsOrders :
        LET t == __init__(factoryImage, <<>>, defaults)
        IN  /\ regs = t.regs
            /\ sensor = t.obj
            /\ pc = "idle"
            /\ last = [op |-> "Welford", arg |-> <<>>, err |-> NoError, writes |-> <<>>, reads |-> <<>>]
            /\ pre = [regs |-> t.regs, obj |-> t.obj]
            /\ cal = noCal
            /\ left = MaxFed
            /\ accel = noAcc
            /\ ret = None
            /\ soft = noSoft
            /\ welford = [made |-> TRUE, w |-> Welford, fed |-> <<>>]
            /\ held = noHeld
            /\ threads = noThreads

\* Two callers about to assign resolution and range on a sensor just constructed
InitBus ==
    \E r \in InitImages, defaults \in defaultsOrders, v1 \in DOMAIN resolutionDict, v2 \in DOMAIN rangeDict :
        LET t == __init__(r, <<>>, defaults)
        IN  /\ regs = t.regs
            /\ sensor = t.obj
            /\ pc = "idle"
            /\ last = [op |-> "threads", arg |-> <<>>, err |-> NoError, writes |-> <<>>, reads |-> <<>>]
            /\ pre = [regs |-> t.regs, obj |-> t.obj]
            /\ cal = noCal
            /\ left = 0
            /\ accel = noAcc
            /\ ret = None
            /\ soft = noSoft
            /\ welford = noWelford
            /\ held = noHeld
            /\ threads = [noThreads EXCEPT !.made = TRUE, !.value = <<v1, v2>>, !.at = <<"enter", "enter">>]

\* A sensor on which autoOffsetCalibration is about to run, sample by sample
InitCal ==
    \E r \in InitImages :
        \/ Constructed(r, <<>>, 1)
        \/ Constructed(r, <<[key |-> "units", value |-> "SI"]>>, 1)

\* One fit in a behaviour
InitGeo == Constructed(factoryImage, <<>>, 1)

InitRead ==
    \E r \in InitImages \cup ForeignImages :
        \/ Bound(r, <<>>, MaxOps)
        \/ Bound(r, <<[key |-> "sampleAveraging", value |-> 3]>>, MaxOps)

InitKw == \E r \in InitImages : Constructed(r, <<>>, 1)

InitHeld == \E r \in InitImages : Constructed(r, <<>>, MaxReads)

\* Keyword arguments of MSA301(i2c, **kwargs): "bandwidth" is no property of
\* the class; the order of kwargs.items() is the interpreter's
CtorKwargs ==
    { <<>>,
      <<[key |-> "range", value |-> 4]>>,
      <<[key |-> "bandwidth", value |-> 1]>>,
      <<[key |-> "range", value |-> 4], [key |-> "bandwidth", value |-> 1]>>,
      <<[key |-> "bandwidth", value |-> 1], [key |-> "range", value |-> 4]>>,
      <<[key |-> "sampleAveraging", value |-> 3], [key |-> "bandwidth", value |-> 1]>> }

InitCtor == \E r \in InitImages \cup ForeignImages, kwargs \in CtorKwargs : Bound(r, kwargs, MaxOps)

InitSeq ==
    \E r \in InitImages :
        \/ Constructed(r, <<>>, MaxCalls)
        \/ Constructed(r, <<[key |-> "units", value |-> "SI"]>>, MaxCalls)
        \/ \E kw \in InitNumbers : Constructed(r, <<kw>>, MaxCalls)

Enter == [regs |-> regs, obj |-> sensor, writes |-> <<>>, reads |-> <<>>, err |-> NoError]

Idle == pc = "idle" /\ left > 0

\* The call op(arg) ran from Enter to t
Call(op, arg, t) ==
    /\ regs' = t.regs
    /\ sensor' = t.obj
    /\ last' = [op |-> op, arg |-> arg, err |-> t.err, writes |-> t.writes, reads |-> t.reads]
    /\ pre' = [regs |-> regs, obj |-> sensor]
    /\ left' = left - 1
    /\ ret' = None
    /\ UNCHANGED <<pc, cal, accel, soft, welford, held, threads>>

---------------------------------------------------------------------------
(* Actions: one per operation of the driver                                *)

resolution_call ==
    Idle /\ \E value \in DOMAIN resolutionDict \cup {9, 16} :
        Call("resolution", value, resolution_setter(Enter, value))

range_call ==
    Idle /\ \E value \in DOMAIN rangeDict \cup {3} :
        Call("range", value, range_setter(Enter, value))

outputDataRate_call ==
    Idle /\ \E value \in DOMAIN odrDict \cup {3, 2048} :
        Call("outputDataRate", value, outputDataRate_setter(Enter, value))

powerMode_call ==
    Idle /\ \E value \in DOMAIN pwrModeDict \cup {"Sleep"} :
        Call("powerMode", value, powerMode_setter(Enter, value))

outputDataRateLP_call ==
    Idle /\ \E value \in DOMAIN lowPwrOdrDict \cup {1, 1024} :
        Call("outputDataRateLP", value, outputDataRateLP_setter(Enter, value))

intLatchConfig_call ==
    Idle /\ \E value \in DOMAIN intLatchDict \cup {"3s"} :
        Call("intLatchConfig", value, intLatchConfig_setter(Enter, value))

intLatchReset_call ==
    Idle /\ Call("intLatchReset", 0, intLatchReset(Enter))

fallDuration_call ==
    Idle /\ \E value \in {1, 2, 3, 20, 513, 514} :
        Call("fallDuration", value, fallDuration_setter(Enter, value))

fallThreshold_call ==
    Idle /\ \E value \in {-1, 0, 7, 8, 375, 1999, 2000} :
        Call("fallThreshold", value, fallThreshold_setter(Enter, value))

fallMode_call ==
    Idle /\ \E value \in DOMAIN fallModeDict \cup {"Both"} :
        Call("fallMode", value, fallMode_setter(Enter, value))

fallHyst_call ==
    Idle /\ \E value \in {-125, 0, 100, 125, 250, 375, 500} :
        Call("fallHyst", value, fallHyst_setter(Enter, value))

activeDur_call ==
    Idle /\ \E value \in 0..5 :
        Call("activeDur", value, activeDur_setter(Enter, value))

activeThr_call ==
    Idle /\ \E value \in {-1, 0, 1, 2, 40, 511, 512} :
        Call("activeThr", value, activeThr_setter(Enter, value))

tapQuietDur_call ==
    Idle /\ \E value \in DOMAIN tapQuietDict \cup {25} :
        Call("tapQuietDur", value, tapQuietDur_setter(Enter, value))

tapShockDur_call ==
    Idle /\ \E value \in DOMAIN tapShockDict \cup {60} :
        Call("tapShockDur", value, tapShockDur_setter(Enter, value))

tapDur_call ==
    Idle /\ \E value \in DOMAIN tapDurDict \cup {300} :
        Call("tapDur", value, tapDur_setter(Enter, value))

tapThr_call ==
    Idle /\ \E value \in {-1, 0, 31, 32, 512, 1023, 1024} :
        Call("tapThr", value, tapThr_setter(Enter, value))

orientHyst_call ==
    Idle /\ \E value \in {-1, 0, 62, 63, 250, 499, 500} :
        Call("orientHyst", value, orientHyst_setter(Enter, value))

zBlockMode_call ==
    Idle /\ \E value \in DOMAIN zBlockModeDict \cup {"Block"} :
        Call("zBlockMode", value, zBlockMode_setter(Enter, value))

orientMode_call ==
    Idle /\ \E value \in DOMAIN orientModeDict \cup {"Asymmetric"} :
        Call("orientMode", value, orientMode_setter(Enter, value))

zBlockThreshold_call ==
    Idle /\ \E value \in {-1, 0, 62, 63, 500, 999, 1000} :
        Call("zBlockThreshold", value, zBlockThreshold_setter(Enter, value))

units_call ==
    Idle /\ \E value \in DOMAIN unitsDict \cup {"mg"} :
        Call("units", value, units_setter(Enter, value))

sampleAveraging_call ==
    Idle /\ \E value \in {-1, 0, 1, 2, 3} :
        Call("sampleAveraging", value, sampleAveraging_setter(Enter, value))

scaleFactor_call ==
    Idle /\ \E value \in {300, 1000} :
        Call("scaleFactor", value, scaleFactor_setter(Enter, value))

axesConfig_call ==
    Idle /\ \E kwargs \in kwargsOver(flagItems(<<axesToggleDict, axesSwapDict>>)) :
        Call("axesConfig", kwargs, axesConfig(Enter, kwargs))

interruptConfig_call ==
    Idle /\ \E kwargs \in kwargsOver(flagItems(<<intSet0dict, intSet1dict>>)) :
        Call("interruptConfig", kwargs, interruptConfig(Enter, kwargs))

mapInterruptsToIntPin_call ==
    Idle /\ \E kwargs \in kwargsOver(flagItems(<<intMap0dict, intMap1dict>>)) :
        Call("mapInterruptsToIntPin", kwargs, mapInterruptsToIntPin(Enter, kwargs))

intPinConfig_call ==
    Idle /\ \E kwargs \in kwargsOver(flagItems(<<intPinConfigDict>>)) :
        Call("intPinConfig", kwargs, intPinConfig(Enter, kwargs))

offsetCalibration_call ==
    Idle /\ \E kwargs \in kwargsOver(offsetItems) :
        Call("offsetCalibration", kwargs, offsetCalibration(Enter, kwargs))

\* interruptConfig as the calls of SpecSeq use it
newDataInt_call ==
    Idle /\ \E kwargs \in {<<flag("newDataIntEnable", TRUE)>>, <<flag("newDataIntEnable", FALSE)>>,
                            <<flag("fallIntEnable", TRUE)>>} :
        Call("interruptConfig", kwargs, interruptConfig(Enter, kwargs))

resetAllDefaults_call ==
    Idle /\ Call("resetAllDefaults", 0, resetAllDefaults(Enter))

\* The call op(arg) ran from Enter to t and returned value
Query(op, arg, t, value) ==
    /\ regs' = t.regs
    /\ sensor' = t.obj
    /\ last' = [op |-> op, arg |-> arg, err |-> t.err, writes |-> t.writes, reads |-> t.reads]
    /\ pre' = [regs |-> regs, obj |-> sensor]
    /\ left' = left - 1
    /\ ret' = value
    /\ UNCHANGED <<pc, cal, accel, soft, welford, held, threads>>

\* A read of a status accessor: the sensor's stored object is given the
\* fields of char and is what the accessor returns.  keep: the caller stores
\* the result in a variable, as in
\* "motionInterruptStatus = sensor.motionInterrupts"
status(op, t, value, keep) ==
    /\ regs' = t.regs
    /\ sensor' = t.obj
    /\ last' = [op |-> op, arg |-> <<>>, err |-> t.err, writes |-> t.writes, reads |-> t.reads]
    /\ pre' = [regs |-> regs, obj |-> sensor]
    /\ left' = left - 1
    /\ ret' = returned(FALSE, value)
    /\ held' = [held EXCEPT !.read = @ \cup {op},
                            !.status[op] = value,
                            !.kept = IF keep THEN @ \cup {op} ELSE @,
                            !.seen[op] = IF keep THEN value ELSE @]
    /\ UNCHANGED <<pc, cal, accel, soft, welford, threads>>

newDataReady_call ==
    Idle /\ \E char \in StatusBytes :
        Query("newDataReady", <<>>, newDataReady(Enter), newDataReady_value(sensor, char))

motionInterrupts_call ==
    Idle /\ \E char \in StatusBytes, keep \in BOOLEAN :
        status("motionInterrupts", motionInterrupts(Enter), statusOf(char, motionIntStatusDict), keep)

tapActivityStatus_call ==
    Idle /\ \E char \in StatusBytes, keep \in BOOLEAN :
        status("tapActivityStatus", tapActivityStatus(Enter), statusOf(char, tapActIntStatusDict), keep)

orientationStatus_call ==
    Idle /\ \E char \in StatusBytes, keep \in BOOLEAN :
        status("orientationStatus", orientationStatus(Enter), orientationStatus_value(char), keep)

\* The no-argument forms
axesConfig_query ==
    Idle /\ Query("axesConfig", <<>>, axesConfig(Enter, <<>>),
                  returned(FALSE, flagsOf(regs, <<axesToggleDict, axesSwapDict>>, <<_ODR_AXISTOGGLE, _SWAP_POL>>)))

interruptConfig_query ==
    Idle /\ Query("interruptConfig", <<>>, interruptConfig(Enter, <<>>),
                  returned(FALSE, flagsOf(regs, <<intSet0dict, intSet1dict>>, <<_INT_SET0, _INT_SET1>>)))

mapInterruptsToIntPin_query ==
    Idle /\ Query("mapInterruptsToIntPin", <<>>, mapInterruptsToIntPin(Enter, <<>>),
                  returned(FALSE, flagsOf(regs, <<intMap0dict, intMap1dict>>, <<_INT_MAP0, _INT_MAP1>>)))

intPinConfig_query ==
    Idle /\ Query("intPinConfig", <<>>, intPinConfig(Enter, <<>>),
                  returned(FALSE, flagsOf(regs, <<intPinConfigDict>>, <<_INT_CFG>>)))

offsetCalibration_query ==
    Idle /\ \E keys \in {offsetsOrder, <<"zOffset", "xOffset", "yOffset">>} :
        Query("offsetCalibration", <<>>, offsetCalibration_read(Enter, keys), returned(FALSE, hardwareOffsets(regs)))

\* acceleration, up to the loop "for i in range(self._sampleAveraging)"
acceleration_begin ==
    /\ Idle
    /\ pc' = "gate"
    /\ accel' = noAcc
    /\ last' = [op |-> "acceleration", arg |-> <<>>, err |-> NoError, writes |-> <<>>, reads |-> <<>>]
    /\ pre' = [regs |-> regs, obj |-> sensor]
    /\ left' = left - 1
    /\ ret' = None
    /\ UNCHANGED <<regs, sensor, cal, soft, welford, held, threads>>

\* One evaluation of the condition of "while not self.newDataReady: pass"
acceleration_gate ==
    /\ pc = "gate"
    /\ accel.polls < MaxPolls
    /\ \E char \in StatusBytes :
          LET t == newDataReady([Enter EXCEPT !.reads = last.reads])
              value == newDataReady_value(sensor, char)
          IN  /\ last' = [last EXCEPT !.reads = t.reads]
              /\ accel' = [accel EXCEPT !.polls = @ + 1, !.ready = value.value.scalar # 0,
                                        !.status = IF sensor.newDataIntEnable THEN char ELSE @]
              /\ pc' = IF value.value.scalar # 0 THEN "read" ELSE "gate"
    /\ UNCHANGED <<regs, sensor, pre, cal, left, ret, soft, welford, held, threads>>

\* The body of the loop: one read of the three words, added to x, y, z; after
\* the last pass the sums are multiplied by _factor and returned
acceleration_read ==
    /\ pc = "read"
    /\ \E data \in Samples :
          LET t == _register_3_words([Enter EXCEPT !.reads = last.reads], _OUT_X_L)
              sum == [k \in 1..3 |-> accel.sum[k] + words(data)[k]]
              done == accel.i + 1 >= sensor.sampleAveraging
          IN  /\ last' = [last EXCEPT !.reads = t.reads]
              /\ accel' = [accel EXCEPT !.i = @ + 1, !.sum = sum, !.polls = 0, !.ready = FALSE,
                                        !.served = Append(@, data)]
              /\ pc' = IF done THEN "idle" ELSE "gate"
              /\ ret' = IF done
                        THEN returned(FALSE, [x |-> sum[1] * sensor.factor[1], y |-> sum[2] * sensor.factor[1],
                                              z |-> sum[3] * sensor.factor[1], den |-> sensor.factor[2]])
                        ELSE None
    /\ UNCHANGED <<regs, sensor, pre, cal, left, soft, welford, held, threads>>

\* A method of the SoftwareCalibration object that ran axesConfig() from Enter
\* to t and left the object as so
SoftCall(op, t, so) ==
    /\ regs' = t.regs
    /\ sensor' = t.obj
    /\ last' = [op |-> op, arg |-> <<>>, err |-> t.err, writes |-> t.writes, reads |-> t.reads]
    /\ pre' = [regs |-> regs, obj |-> sensor]
    /\ left' = left - 1
    /\ ret' = None
    /\ soft' = so
    /\ UNCHANGED <<pc, cal, accel, welford, held, threads>>

\* sensorSC.baseOffsets = data: store, then updateOffsets()
baseOffsets_call ==
    /\ Idle
    /\ soft.made
    /\ \E data \in Bases :
          SoftCall("baseOffsets", axesConfig(Enter, <<>>),
                   [soft EXCEPT !.baseOffsets = data, !.offsets = updateOffsets(regs, sensor, data)])

\* sensorSC.updateOffsets()
updateOffsets_call ==
    /\ Idle
    /\ soft.made
    /\ SoftCall("updateOffsets", axesConfig(Enter, <<>>),
                [soft EXCEPT !.offsets = updateOffsets(regs, sensor, soft.baseOffsets)])

\* The field each caller assigns: resolution (first), range (second)
threadField ==
    <<[mask |-> _RES_MASK, dictionary |-> resolutionDict], [mask |-> _RANGE_MASK, dictionary |-> rangeDict]>>

\* Caller i runs its setter up to the end of the read transaction
setter_read(i) ==
    /\ threads.made
    /\ threads.at[i] = "enter"
    /\ LET t == _setMaskedValueDictBased_read([Enter EXCEPT !.reads = last.reads, !.writes = last.writes], _RES_RANGE)
       IN  /\ last' = [last EXCEPT !.reads = t.reads]
           /\ threads' = [threads EXCEPT !.at[i] = "read", !.char[i] = regs[_RES_RANGE], !.order = Append(@, i)]
    /\ UNCHANGED <<regs, sensor, pc, pre, cal, left, accel, ret, soft, welford, held>>

\* Caller i runs the rest of its setter: the write transaction and, for
\* range, the refresh of scaleFactor
setter_write(i) ==
    /\ threads.made
    /\ threads.at[i] = "read"
    /\ LET s == [Enter EXCEPT !.reads = last.reads, !.writes = last.writes]
           t == _setMaskedValueDictBased_write(s, _RES_RANGE, threadField[i].mask, threads.value[i],
                                               threadField[i].dictionary, threads.char[i])
           u == IF i = 2 THEN scaleFactor_setter(t, threads.value[i] * 125) ELSE t
       IN  /\ regs' = u.regs
           /\ sensor' = u.obj
           /\ last' = [last EXCEPT !.writes = u.writes]
           /\ threads' = [threads EXCEPT !.at[i] = "done", !.order = Append(@, i)]
    /\ UNCHANGED <<pc, pre, cal, left, accel, ret, soft, welford, held>>

\* w.update(x)
update_call ==
    /\ welford.made
    /\ left > 0
    /\ \E x \in Fed :
          /\ welford' = [welford EXCEPT !.w = update(@, x), !.fed = Append(@, x)]
          /\ last' = [op |-> "update", arg |-> <<>>, err |-> NoError, writes |-> <<>>, reads |-> <<>>]
    /\ left' = left - 1
    /\ ret' = None
    /\ UNCHANGED <<regs, sensor, pc, pre, cal, accel, soft, held, threads>>

\* w.mean, w.variance and w.varianceOfMean, read one after the other
statistics_call ==
    /\ welford.made
    /\ last.op # "statistics"
    /\ last' = [op |-> "statistics", arg |-> <<>>, err |-> NoError, writes |-> <<>>, reads |-> <<>>]
    /\ ret' = returned(FALSE, [mean |-> mean(welford.w), variance |-> variance(welford.w),
                               varianceOfMean |-> varianceOfMean(welford.w)])
    /\ UNCHANGED <<regs, sensor, pc, pre, cal, left, accel, soft, welford, held, threads>>

\* VectorOps.getSphereCenter(p), a static method: the sensor is not involved
getSphereCenter_call ==
    /\ Idle
    /\ \E p0 \in Origins : \E p1, p2, p3 \in Coords \X Coords \X Coords :
          LET t == getSphereCenter(<<p0, p1, p2, p3>>)
          IN  /\ cal' = [cal EXCEPT !.p = <<p0, p1, p2, p3>>]
              /\ last' = [op |-> "getSphereCenter", arg |-> <<>>, err |-> t.err, writes |-> <<>>, reads |-> <<>>]
              /\ ret' = IF t.err = NoError THEN returned(FALSE, t.value) ELSE None
    /\ pre' = [regs |-> regs, obj |-> sensor]
    /\ left' = left - 1
    /\ UNCHANGED <<regs, sensor, pc, accel, soft, welford, held, threads>>

\* autoOffsetCalibration up to the sampling loop
calibration_begin ==
    /\ Idle
    /\ LET t == performAll(Enter, calibrationSettings)
       IN  /\ regs' = t.regs
           /\ sensor' = t.obj
           /\ last' = [op |-> "autoOffsetCalibration", arg |-> 0, err |-> t.err,
                       writes |-> t.writes, reads |-> t.reads]
           /\ pc' = IF t.err = NoError THEN "sampling" ELSE "idle"
    /\ pre' = [regs |-> regs, obj |-> sensor]
    /\ cal' = [prev |-> keepSettings(Enter), p |-> <<>>]
    /\ left' = left - 1
    /\ UNCHANGED <<accel, ret, soft, welford, held, threads>>

\* One pass of "for i in range(4)": the 100 samples of an orientation.  The
\* device is held in the next orientation, or is left as it was.
calibration_sample ==
    /\ pc = "sampling"
    /\ Len(cal.p) < 4
    /\ \E point \in {Readings[Len(cal.p) + 1]} \cup {cal.p[i] : i \in {Len(cal.p)} \ {0}} :
          cal' = [cal EXCEPT !.p = Append(@, point)]
    /\ pc' = IF Len(cal.p) = 3 THEN "fitting" ELSE "sampling"
    /\ UNCHANGED <<regs, sensor, last, pre, left, accel, ret, soft, welford, held, threads>>

\* The sampling loop step by step.  First one evaluation of the condition of
\* "while not sensorObject.newDataReady: pass".  The reads of the loop are
\* counted in accel (polls, i, sum), they are not appended to the log of
\* the call.
sampling_gate ==
    /\ pc = "sampling"
    /\ Len(cal.p) < 4
    /\ ~accel.ready
    /\ accel.polls < MaxPolls
    /\ \E char \in StatusBytes :
          LET value == newDataReady_value(sensor, char)
          IN  accel' = [accel EXCEPT !.polls = @ + 1, !.ready = value.value.scalar # 0,
                                     !.status = IF sensor.newDataIntEnable THEN char ELSE @]
    /\ UNCHANGED <<regs, sensor, pc, last, pre, cal, left, ret, soft, welford, held, threads>>

\* Then one pass of "for j in range(100)": the read of the three words, fed
\* to the statistics.  The device is held still in orientation i, so every
\* sample is Readings[i] and so is the mean that becomes p[i] after the
\* hundredth sample.
sampling_read ==
    /\ pc = "sampling"
    /\ Len(cal.p) < 4
    /\ accel.ready
    /\ LET data == Readings[Len(cal.p) + 1]
           sum == [k \in 1..3 |-> accel.sum[k] + data[k]]
           full == accel.i + 1 = 100
       IN  /\ accel' = IF full THEN noAcc
                       ELSE [accel EXCEPT !.i = @ + 1, !.sum = sum, !.polls = 0, !.ready = FALSE]
           /\ cal' = IF full THEN [cal EXCEPT !.p = Append(@, [k \in 1..3 |-> sum[k] \div 100])] ELSE cal
           /\ pc' = IF full /\ Len(cal.p) = 3 THEN "fitting" ELSE "sampling"
    /\ UNCHANGED <<regs, sensor, last, pre, left, ret, soft, welford, held, threads>>

\* The rest of autoOffsetCalibration
calibration_finish ==
    /\ pc = "fitting"
    /\ LET t == fitAndRestore(Enter, cal.p, cal.prev)
       IN  /\ regs' = t.regs
           /\ sensor' = t.obj
           /\ last' = [last EXCEPT !.err = t.err, !.writes = @ \o t.writes, !.reads = @ \o t.reads]
    /\ pc' = "idle"
    /\ cal' = noCal
    /\ UNCHANGED <<pre, left, accel, ret, soft, welford, held, threads>>

Next ==
    \/ resolution_call \/ range_call \/ outputDataRate_call \/ powerMode_call
    \/ outputDataRateLP_call \/ intLatchConfig_call \/ intLatchReset_call
    \/ fallDuration_call \/ fallThreshold_call \/ fallMode_call \/ fallHyst_call
    \/ activeDur_call \/ activeThr_call \/ tapQuietDur_call \/ tapShockDur_call
    \/ tapDur_call \/ tapThr_call \/ orientHyst_call \/ zBlockMode_call
    \/ orientMode_call \/ zBlockThreshold_call \/ units_call \/ sampleAveraging_call

NextKw ==
    \/ axesConfig_call \/ interruptConfig_call \/ mapInterruptsToIntPin_call
    \/ intPinConfig_call \/ offsetCalibration_call

NextSeq ==
    \/ range_call \/ scaleFactor_call \/ units_call \/ sampleAveraging_call
    \/ newDataInt_call \/ resetAllDefaults_call
    \/ calibration_begin \/ calibration_sample \/ calibration_finish

NextGeo == getSphereCenter_call

NextHeld == motionInterrupts_call \/ tapActivityStatus_call \/ orientationStatus_call

NextNum ==
    \/ fallDuration_call \/ fallThreshold_call \/ fallHyst_call \/ activeDur_call
    \/ activeThr_call \/ tapThr_call \/ orientHyst_call \/ zBlockThreshold_call
    \/ offsetCalibration_call

NextCal == calibration_begin \/ sampling_gate \/ sampling_read \/ calibration_finish

NextBus == \E i \in 1..2 : setter_read(i) \/ setter_write(i)

NextWelford == update_call \/ statistics_call

NextSoft == baseOffsets_call \/ updateOffsets_call

NextRead ==
    \/ newDataReady_call \/ motionInterrupts_call \/ tapActivityStatus_call \/ orientationStatus_call
    \/ axesConfig_query \/ interruptConfig_query \/ mapInterruptsToIntPin_query \/ intPinConfig_query
    \/ offsetCalibration_query
    \/ acceleration_begin \/ acceleration_gate \/ acceleration_read

\* Single-field setters, from every initial register image
Spec == Init /\ [][Next]_vars

\* One keyword-argument call on a freshly bound sensor
SpecKw == InitKw /\ [][NextKw]_vars

\* Sequences of the calls that touch the driver's cached fields
SpecSeq == InitSeq /\ [][NextSeq]_vars

\* The software offsets under every combination of the axis flags
SpecSoft == InitSoft /\ [][NextSoft]_vars

\* One Welford accumulator fed up to MaxFed values
SpecWelford == InitWelford /\ [][NextWelford]_vars

\* Two callers whose setters of one register interleave on the bus
SpecBus == InitBus /\ [][NextBus]_vars

\* One autoOffsetCalibration, every sample a step
SpecCal == InitCal /\ [][NextCal]_vars

\* The sphere fit on four points of a small grid
SpecGeo == InitGeo /\ [][NextGeo]_vars

\* Construction on any device, then the read-only properties and queries
SpecRead == InitRead /\ [][NextRead]_vars

\* Reads of the status accessors by a caller that may keep the results
SpecHeld == InitHeld /\ [][NextHeld]_vars

\* One call of a setter that takes a number
SpecNum == InitKw /\ [][NextNum]_vars

\* Construction with keyword arguments, then queries
SpecCtor == InitCtor /\ [][NextRead]_vars

\* The same, with the interpreter running the loops of acceleration on
SpecReadFair == SpecRead /\ WF_vars(acceleration_gate) /\ WF_vars(acceleration_read)

---------------------------------------------------------------------------
(* The fields of the single-field setters                                  *)

\* Register and mask of each masked field, as the class names them
fieldOf ==
    ("resolution" :> <<_RES_RANGE, _RES_MASK>>) @@ ("range" :> <<_RES_RANGE, _RANGE_MASK>>)
    @@ ("outputDataRate" :> <<_ODR_AXISTOGGLE, _ODR_MASK>>)
    @@ ("powerMode" :> <<_PWRMODE_BW, _PWRMODE_MASK>>)
    @@ ("outputDataRateLP" :> <<_PWRMODE_BW, _LOWPWR_ODR_MASK>>)
    @@ ("intLatchConfig" :> <<_INT_LAT, _INT_LATSET_MASK>>)
    @@ ("fallMode" :> <<_FALL_HYS, _FALL_MODE_MASK>>) @@ ("fallHyst" :> <<_FALL_HYS, _FALL_HYST_MASK>>)
    @@ ("activeDur" :> <<_ACTIV_DUR, _ACTIV_DUR_MASK>>)
    @@ ("tapQuietDur" :> <<_TAP_DUR, _TAP_QUIET_MASK>>) @@ ("tapShockDur" :> <<_TAP_DUR, _TAP_SHOCK_MASK>>)
    @@ ("tapDur" :> <<_TAP_DUR, _TAP_DUR_MASK>>) @@ ("tapThr" :> <<_TAP_THR, _TAP_THR_MASK>>)
    @@ ("orientHyst" :> <<_ORIENT_INT_SETTING, _ORIENT_HYST_MASK>>)
    @@ ("zBlockMode" :> <<_ORIENT_INT_SETTING, _ORIENT_BLOCK_MASK>>)
    @@ ("orientMode" :> <<_ORIENT_INT_SETTING, _ORIENT_MODE_MASK>>)
    @@ ("zBlockThreshold" :> <<_Z_BLOCK, _Z_BLOCK_MASK>>)

\* The value table of each table-based setter
tableOf ==
    ("resolution" :> resolutionDict) @@ ("range" :> rangeDict) @@ ("outputDataRate" :> odrDict)
    @@ ("powerMode" :> pwrModeDict) @@ ("outputDataRateLP" :> lowPwrOdrDict)
    @@ ("intLatchConfig" :> intLatchDict) @@ ("fallMode" :> fallModeDict)
    @@ ("tapQuietDur" :> tapQuietDict) @@ ("tapShockDur" :> tapShockDict) @@ ("tapDur" :> tapDurDict)
    @@ ("zBlockMode" :> zBlockModeDict) @@ ("orientMode" :> orientModeDict) @@ ("units" :> unitsDict)

\* The setters that validate a single value
singleFieldSetters ==
    DOMAIN tableOf \cup {"fallDuration", "fallThreshold", "fallHyst", "activeDur", "activeThr", "tapThr",
                         "orientHyst", "zBlockThreshold", "sampleAveraging"}

\* Flag dictionaries and governing registers of each group operation
groupOf ==
    ("axesConfig" :> [dictArr |-> <<axesToggleDict, axesSwapDict>>, addrArr |-> <<_ODR_AXISTOGGLE, _SWAP_POL>>])
    @@ ("interruptConfig" :> [dictArr |-> <<intSet0dict, intSet1dict>>, addrArr |-> <<_INT_SET0, _INT_SET1>>])
    @@ ("mapInterruptsToIntPin" :> [dictArr |-> <<intMap0dict, intMap1dict>>, addrArr |-> <<_INT_MAP0, _INT_MAP1>>])
    @@ ("intPinConfig" :> [dictArr |-> <<intPinConfigDict>>, addrArr |-> <<_INT_CFG>>])

\* The settings autoOffsetCalibration snapshots, read from registers r and object obj
settingsOf(r, obj) ==
    keepSettings([regs |-> r, obj |-> obj, writes |-> <<>>, reads |-> <<>>, err |-> NoError])

---------------------------------------------------------------------------
(* Properties                                                              *)

\* C1: after a successful write by a field setter (resolution, range,
\* outputDataRate, powerMode, outputDataRateLP, intLatchConfig, fallMode,
\* fallHyst, activeDur, tapQuietDur, tapShockDur, tapDur, tapThr, orientHyst,
\* zBlockMode, orientMode, zBlockThreshold), every bit of the target register
\* outside the field's mask has the value it had before the write.
C1_SetterKeepsBitsOutsideMask ==
    (last.op \in DOMAIN fieldOf /\ last.err = NoError) =>
        LET address == fieldOf[last.op][1]
            mask == fieldOf[last.op][2]
        IN  ClearBits(regs[address], mask) = ClearBits(pre.regs[address], mask)

\* C2: when autoOffsetCalibration has applied its calibration configuration
\* and then fails at the fitting step (degenerate sample points), every
\* setting snapshotted at entry is back at its pre-call value when the error
\* reaches the caller.
C2_FailedCalibrationRestores ==
    (last.op = "autoOffsetCalibration" /\ pc = "idle" /\ last.err = "ZeroDivisionError") =>
        settingsOf(regs, sensor) = settingsOf(pre.regs, pre.obj)

C4_OffsetCalibrationAllOrNothing ==
    (/\ last.op = "offsetCalibration"
     /\ \E k \in 1..Len(last.arg) :
           \/ last.arg[k].key \notin DOMAIN axesOffsetDict
           \/ last.arg[k].value < -160000
           \/ last.arg[k].value >= 160000) =>
        /\ last.err # NoError
        /\ \A i \in 1..Len(last.writes) :
              last.writes[i] \notin {axesOffsetDict[key] : key \in DOMAIN axesOffsetDict}

\* C5: for every resolution in {8, 10, 12, 14} and every range in
\* {2, 4, 8, 16}, whatever register 0x0F held, the property read right after
\* it is set is the value set, and the other property reads as before.
C5_ResolutionRangeRoundTrip ==
    /\ (last.op = "resolution" /\ last.arg \in {8, 10, 12, 14}) =>
          /\ last.err = NoError
          /\ resolution(regs) = last.arg
          /\ range(regs) = range(pre.regs)
    /\ (last.op = "range" /\ last.arg \in {2, 4, 8, 16}) =>
          /\ last.err = NoError
          /\ range(regs) = last.arg
          /\ resolution(regs) = resolution(pre.regs)

\* Range 2 g was set on a register that held 0xFF (8 bit, 16 g), and the
\* resolution still reads 8 bit
C5_Witness ==
    /\ last.op = "range" /\ last.arg = 2 /\ last.err = NoError
    /\ pre.regs[_RES_RANGE] = \hFF /\ range(regs) = 2 /\ resolution(regs) = 8

\* C6: for each of outputDataRate, outputDataRateLP, powerMode,
\* intLatchConfig, fallMode, tapQuietDur, tapShockDur, tapDur, zBlockMode and
\* orientMode, and every value v its setter accepts, the property read right
\* after it is set to v is v (and nothing else).
C6_TableFieldsReadBack ==
    (last.op \in DOMAIN tableOf /\ last.arg \in DOMAIN tableOf[last.op]) =>
        /\ last.err = NoError
        /\ last.op = "outputDataRate" => outputDataRate(regs) = last.arg
        /\ last.op = "outputDataRateLP" => outputDataRateLP(regs) = last.arg
        /\ last.op = "powerMode" => powerMode(regs) = {last.arg}
        /\ last.op = "intLatchConfig" => intLatchConfig(regs) = {last.arg}
        /\ last.op = "fallMode" => fallMode(regs) = {last.arg}
        /\ last.op = "tapQuietDur" => tapQuietDur(regs) = {last.arg}
        /\ last.op = "tapShockDur" => tapShockDur(regs) = {last.arg}
        /\ last.op = "tapDur" => tapDur(regs) = {last.arg}
        /\ last.op = "zBlockMode" => zBlockMode(regs) = {last.arg}
        /\ last.op = "orientMode" => orientMode(regs) = {last.arg}

\* C7: after axesConfig, interruptConfig, mapInterruptsToIntPin or
\* intPinConfig is called with a non-empty set F of valid boolean flags, the
\* no-argument form returns the supplied value for every flag of F and the
\* prior value for every other flag, every register bit that is not a flag
\* of F is unchanged, and a governing register holding no flag of F is not
\* written.
C7_GroupConfigFrame ==
    (/\ last.op \in DOMAIN groupOf
     /\ \A k \in 1..Len(last.arg) :
           /\ last.arg[k].isbool
           /\ \E i \in 1..Len(groupOf[last.op].dictArr) : last.arg[k].key \in DOMAIN groupOf[last.op].dictArr[i]) =>
        LET dictArr == groupOf[last.op].dictArr
            addrArr == groupOf[last.op].addrArr
            F == last.arg
            now == flagsOf(regs, dictArr, addrArr)
            before == flagsOf(pre.regs, dictArr, addrArr)
            inF(a, j) == \E k \in 1..Len(F), i \in 1..Len(dictArr) :
                             /\ addrArr[i] = a
                             /\ F[k].key \in DOMAIN dictArr[i]
                             /\ dictArr[i][F[k].key] = 2 ^ j
        IN  /\ last.err = NoError
            /\ \A k \in 1..Len(F) : now[F[k].key] = F[k].value
            /\ \A key \in DOMAIN now \ keysOf(F) : now[key] = before[key]
            /\ \A a \in Addr, j \in 0..7 : ~inF(a, j) => Bit(regs[a], j) = Bit(pre.regs[a], j)
            /\ \A i \in 1..Len(dictArr) :
                  DOMAIN dictArr[i] \cap keysOf(F) = {} =>
                      \A w \in 1..Len(last.writes) : last.writes[w] # addrArr[i]

\* axesConfig(yAxisDisable=True) ran on a register 0x10 that held 0x55 and
\* wrote that register only
C7_Witness ==
    /\ last.op = "axesConfig" /\ last.arg = <<flag("yAxisDisable", TRUE)>>
    /\ pre.regs[_ODR_AXISTOGGLE] = \h55 /\ regs[_ODR_AXISTOGGLE] = \h55
    /\ last.writes = <<_ODR_AXISTOGGLE>>

\* C8: after construction and after any successful or failed assignment to
\* range, scaleFactor, units or sampleAveraging, the combined factor is
\* scaleFactor * unitsFactor / sampleAveraging for their current values, with
\* unitsFactor 0.001 for 'G' and 0.00980665 for 'SI', and sampleAveraging >= 1.
C8_CombinedFactor ==
    /\ sensor.factor[2] > 0
    /\ sensor.factor[1] * sensor.sampleAveraging = sensor.factor[2] * sensor.scaleFactor * sensor.unitsFactor
    /\ sensor.unitsFactor = (IF sensor.units = "G" THEN 20000 ELSE 196133)
    /\ sensor.units \in {"G", "SI"}
    /\ sensor.sampleAveraging >= 1

\* sampleAveraging = 3 was assigned on a sensor in SI units whose scaleFactor
\* had been set by hand at construction
C8_Witness ==
    /\ last.op = "sampleAveraging" /\ last.arg = 3 /\ last.err = NoError
    /\ sensor.units = "SI" /\ sensor.scaleFactor = 300 /\ sensor.sampleAveraging = 3

\* C9: after construction and after any sequence of driver operations, the
\* cached new-data-interrupt flag equals the newDataIntEnable bit (0x10) of
\* hardware register 0x17.
C9_CachedNewDataIntEnable ==
    pc = "idle" =>
        sensor.newDataIntEnable = (BitAnd(regs[_INT_SET1], intSet1dict["newDataIntEnable"]) # 0)

\* C10: after construction, and after a range assignment or resetAllDefaults
\* on a sensor for which it held, scaleFactor is 125 * R / 4096 for the range
\* R decoded from hardware register 0x0F.
C10_ScaleFactorFollowsRange ==
    /\ (last.op = "__init__" /\ "scaleFactor" \notin keysOf(last.arg)) =>
          sensor.scaleFactor = 125 * range(regs)
    /\ (/\ last.op \in {"range", "resetAllDefaults"}
        /\ pre.obj.scaleFactor = 125 * range(pre.regs)) =>
          sensor.scaleFactor = 125 * range(regs)


RECURSIVE sumOfWords(_, _)
sumOfWords(served, k) ==
    IF served = <<>>
    THEN 0
    ELSE LET word == Head(served)[2 * k - 1] + 256 * Head(served)[2 * k]
         IN  (IF word >= 32768 THEN word - 65536 ELSE word) + sumOfWords(Tail(served), k)

\* How often register occurs in a sequence of reads
RECURSIVE readsOf(_, _)
readsOf(reads, register) ==
    IF reads = <<>> THEN 0
    ELSE (IF Head(reads) = register THEN 1 ELSE 0) + readsOf(Tail(reads), register)

C13_AccelerationWaitsForDataReady ==
    /\ [][(last.op = "acceleration" /\ pc = "gate" /\ sensor.newDataIntEnable) =>
              /\ pc' \in {"gate", "read"}
              /\ pc' = "read" => accel'.status # 0
              /\ accel'.status = 0 => (pc' = "gate" /\ accel'.i = accel.i /\ ret'.none)]_vars
    /\ ((pc = "gate") ~> (pc = "read")) =>
          ((pc = "gate" /\ sensor.newDataIntEnable) ~> (pc = "idle" /\ ~ret.none))

\* A call that returned although the status first read 0
C13_Witness ==
    /\ last.op = "acceleration"
    /\ pc = "idle"
    /\ sensor.newDataIntEnable
    /\ readsOf(last.reads, \h0A) > accel.i
    /\ ~ret.none

governing ==
    [motionInterrupts |-> {\h09}, tapActivityStatus |-> {\h0B}, orientationStatus |-> {\h0C},
     axesConfig |-> {\h10, \h12}, interruptConfig |-> {\h16, \h17},
     mapInterruptsToIntPin |-> {\h19, \h1A}, intPinConfig |-> {\h20},
     offsetCalibration |-> {\h38, \h39, \h3A}]

C16_ResetRestoresDefaults ==
    last.op = "resetAllDefaults" =>
        /\ last.err = NoError
        /\ \A i \in 1..Len(resetTable) : regs[resetTable[i][1]] = resetTable[i][2]
        /\ resolution(regs) = 14
        /\ range(regs) = 2
        /\ powerMode(regs) = {"Suspnd"}
        /\ outputDataRate(regs) = 1
        /\ outputDataRateLP(regs) = 2
        /\ intLatchConfig(regs) = {"NoLatch"}
        /\ fallDuration(regs) = 20
        /\ fallThreshold(regs) = <<375, 1>>
        /\ fallMode(regs) = {"SingleMode"}
        /\ fallHyst(regs) = 125
        /\ activeDur(regs) = 1
        /\ activeThr(regs)[1] * 10000000 = 390625 * activeThr(regs)[2]
        /\ tapThr(regs)[1] * 10000 = 3125 * tapThr(regs)[2]
        /\ orientHyst(regs)[1] * 10 = 625 * orientHyst(regs)[2]
        /\ zBlockMode(regs) = {"ZaxSlopeBlock"}
        /\ orientMode(regs) = {"Symmetric"}
        /\ zBlockThreshold(regs) = <<500, 1>>
        /\ \A key \in DOMAIN axesToggleDict \cup DOMAIN axesSwapDict :
              ~flagsOf(regs, <<axesToggleDict, axesSwapDict>>, <<_ODR_AXISTOGGLE, _SWAP_POL>>)[key]
        /\ \A key \in DOMAIN intSet0dict \cup DOMAIN intSet1dict :
              ~flagsOf(regs, <<intSet0dict, intSet1dict>>, <<_INT_SET0, _INT_SET1>>)[key]
        /\ \A key \in DOMAIN intMap0dict \cup DOMAIN intMap1dict :
              ~flagsOf(regs, <<intMap0dict, intMap1dict>>, <<_INT_MAP0, _INT_MAP1>>)[key]
        /\ \A key \in DOMAIN intPinConfigDict : ~flagsOf(regs, <<intPinConfigDict>>, <<_INT_CFG>>)[key]
        /\ \A key \in DOMAIN axesOffsetDict : hardwareOffsets(regs)[key] = 0
        /\ \A k \in 1..Len(last.writes) : last.writes[k] \notin 0..12
        /\ \A a \in DOMAIN regs \cap 0..12 : regs[a] = pre.regs[a]

\* A reset of a device whose registers did not hold the factory values
C16_Witness ==
    /\ last.op = "resetAllDefaults"
    /\ pre.regs[_RES_RANGE] = \hFF
    /\ pre.regs[\h38] = \hFF
    /\ regs[_RES_RANGE] = 0
    /\ Len(last.writes) = 22

\* C17: when autoOffsetCalibration returns normally, resolution, range, units,
\* sampleAveraging, outputDataRate, powerMode, the seven axis flags, the
\* new-data interrupt enable, the three hardware offsets and the combined
\* factor read the same as immediately before the call; the computed offsets
\* are not applied to the hardware offset registers.
C17_CalibrationRestoresSettings ==
    (last.op = "autoOffsetCalibration" /\ pc = "idle" /\ last.err = NoError) =>
        /\ resolution(regs) = resolution(pre.regs)
        /\ range(regs) = range(pre.regs)
        /\ sensor.units = pre.obj.units
        /\ sensor.sampleAveraging = pre.obj.sampleAveraging
        /\ outputDataRate(regs) = outputDataRate(pre.regs)
        /\ powerMode(regs) = powerMode(pre.regs)
        /\ flagsOf(regs, <<axesToggleDict, axesSwapDict>>, <<_ODR_AXISTOGGLE, _SWAP_POL>>)
              = flagsOf(pre.regs, <<axesToggleDict, axesSwapDict>>, <<_ODR_AXISTOGGLE, _SWAP_POL>>)
        /\ sensor.newDataIntEnable = pre.obj.newDataIntEnable
        /\ hardwareOffsets(regs) = hardwareOffsets(pre.regs)
        /\ \A key \in DOMAIN axesOffsetDict : regs[axesOffsetDict[key]] = pre.regs[axesOffsetDict[key]]
        /\ sensor.factor = pre.obj.factor

\* Four points lie in one plane (or on one line) exactly when the scalar
\* triple product of the edges from the first point is zero
coplanar(p) ==
    LET a == <<p[2][1] - p[1][1], p[2][2] - p[1][2], p[2][3] - p[1][3]>>
        b == <<p[3][1] - p[1][1], p[3][2] - p[1][2], p[3][3] - p[1][3]>>
        c == <<p[4][1] - p[1][1], p[4][2] - p[1][2], p[4][3] - p[1][3]>>
    IN  c[1] * (a[2] * b[3] - a[3] * b[2])
        + c[2] * (a[3] * b[1] - a[1] * b[3])
        + c[3] * (a[1] * b[2] - a[2] * b[1]) = 0

normSquared(a) == a[1] * a[1] + a[2] * a[2] + a[3] * a[3]

\* C19: for non-coplanar points the returned Q = (Wx/W, Wy/W, Wz/W) satisfies
\* (p_i - p_0) . Q = (|p_i|^2 - |p_0|^2) / 2 for i = 1, 2, 3, so Q is
\* equidistant from the four points.  With Q = (x, y, z) / den the equation
\* is 2 (p_i - p_0) . (x, y, z) = den (|p_i|^2 - |p_0|^2).
C19_CenterIsEquidistant ==
    (last.op = "getSphereCenter" /\ ~coplanar(cal.p)) =>
        /\ last.err = NoError
        /\ ret.value.den # 0
        /\ \A i \in 2..4 :
              2 * ((cal.p[i][1] - cal.p[1][1]) * ret.value.x
                   + (cal.p[i][2] - cal.p[1][2]) * ret.value.y
                   + (cal.p[i][3] - cal.p[1][3]) * ret.value.z)
                = ret.value.den * (normSquared(cal.p[i]) - normSquared(cal.p[1]))

\* A centre off the origin was returned for a tetrahedron off the origin
C19_Witness ==
    /\ last.op = "getSphereCenter"
    /\ cal.p = <<<<1, -1, 2>>, <<2, 0, 0>>, <<0, 2, 0>>, <<0, 0, -1>>>>
    /\ last.err = NoError
    /\ ret.value.den # 0
    /\ ret.value.x # 0

\* C20: the hardware offset validation accepts exactly the half-open interval
\* [-500, 500) mg for each axis: an offset of exactly 500 fails, -500 succeeds
\* with register code -128 and 499.9 succeeds with register code 127.
\* (Offsets are held as 320 * mg; the code -128 is the byte 0x80.)
C20_OffsetRangeHalfOpen ==
    (/\ last.op = "offsetCalibration"
     /\ last.arg # <<>>
     /\ \A k \in 1..Len(last.arg) : last.arg[k].key \in {"xOffset", "yOffset", "zOffset"}) =>
        /\ last.err = NoError <=>
              \A k \in 1..Len(last.arg) : -500 * 320 <= last.arg[k].value /\ last.arg[k].value < 500 * 320
        /\ \A k \in 1..Len(last.arg) :
              LET register == \h38 + (CHOOSE i \in 0..2 : <<"xOffset", "yOffset", "zOffset">>[i + 1] = last.arg[k].key)
              IN  /\ last.arg[k].value = 500 * 320 => last.err = "ValueError"
                  /\ (last.err = NoError /\ last.arg[k].value = -500 * 320) => regs[register] = 256 - 128
                  /\ (last.err = NoError /\ last.arg[k].value = 4999 * 32) => regs[register] = 127

\* -500 mg was accepted for the y axis and stored as -128
C20_Witness ==
    /\ last.op = "offsetCalibration"
    /\ last.arg = <<[key |-> "yOffset", value |-> -160000]>>
    /\ last.err = NoError
    /\ regs[\h39] = \h80
    /\ pre.regs[\h39] # \h80

\* C21: a group-configuration call (axesConfig, interruptConfig,
\* mapInterruptsToIntPin, intPinConfig) that names a non-existent flag or
\* passes a non-boolean value raises an error with no register touched, even
\* when the same call also carries valid flags for either governing register,
\* and interruptConfig then leaves the cached new-data-interrupt flag
\* unchanged.
C21_RejectedGroupCallTouchesNothing ==
    (/\ last.op \in DOMAIN groupOf
     /\ \E k \in 1..Len(last.arg) :
           \/ ~last.arg[k].isbool
           \/ \A i \in 1..Len(groupOf[last.op].dictArr) : last.arg[k].key \notin DOMAIN groupOf[last.op].dictArr[i]) =>
        /\ last.err \in {"ValueError", "AttributeError"}
        /\ last.reads = <<>>
        /\ last.writes = <<>>
        /\ regs = pre.regs
        /\ sensor.newDataIntEnable = pre.obj.newDataIntEnable
        /\ sensor = pre.obj

\* interruptConfig(newDataIntEnable=True, noSuchFlag=True) was refused on a
\* sensor whose new-data interrupt is disabled
C21_Witness ==
    /\ last.op = "interruptConfig"
    /\ last.arg = <<flag("newDataIntEnable", TRUE), flag("noSuchFlag", TRUE)>>
    /\ last.err = "AttributeError"
    /\ ~pre.obj.newDataIntEnable
    /\ ~sensor.newDataIntEnable

\* C22: after SoftwareCalibration.updateOffsets, for every combination of the
\* seven axis flags, the software offsets equal the base offsets scaled by the
\* units factor and transformed as: a disabled axis contributes zero, a
\* swapped (inverted) axis has its offset negated, and if xyAxesSwap is set
\* the x and y entries are exchanged after those per-axis adjustments; the z
\* entry never moves.
C22_SoftwareOffsetsFollowAxes ==
    (soft.made /\ last.op \in {"SoftwareCalibration", "baseOffsets", "updateOffsets"}) =>
        LET disabled == <<Bit(regs[\h10], 7), Bit(regs[\h10], 6), Bit(regs[\h10], 5)>>
            inverted == <<Bit(regs[\h12], 3), Bit(regs[\h12], 2), Bit(regs[\h12], 1)>>
            exchanged == Bit(regs[\h12], 0) = 1
            adjusted == [k \in 1..3 |->
                            IF disabled[k] = 1 THEN 0
                            ELSE IF inverted[k] = 1 THEN -(soft.baseOffsets[k] * sensor.unitsFactor)
                            ELSE soft.baseOffsets[k] * sensor.unitsFactor]
        IN  /\ soft.offsets[1] = IF exchanged THEN adjusted[2] ELSE adjusted[1]
            /\ soft.offsets[2] = IF exchanged THEN adjusted[1] ELSE adjusted[2]
            /\ soft.offsets[3] = adjusted[3]
            /\ last.writes = <<>>

\* Offsets recomputed with x disabled, y inverted and x and y exchanged
C22_Witness ==
    /\ last.op = "baseOffsets"
    /\ soft.baseOffsets = <<3, -5, 7>>
    /\ Bit(regs[\h10], 7) = 1
    /\ Bit(regs[\h12], 2) = 1
    /\ Bit(regs[\h12], 0) = 1
    /\ Bit(regs[\h10], 6) = 0
    /\ soft.offsets[1] = 5 * sensor.unitsFactor
    /\ soft.offsets[2] = 0

\* The sum of the values of a sequence, and of their squares
RECURSIVE sumOf(_)
sumOf(values) == IF values = <<>> THEN 0 ELSE Head(values) + sumOf(Tail(values))

RECURSIVE sumOfSquares(_)
sumOfSquares(values) == IF values = <<>> THEN 0 ELSE Head(values) * Head(values) + sumOfSquares(Tail(values))

\* C23: after k updates of a Welford accumulator k equals the number of values
\* fed; for k < 2 (a single value included) variance and varianceOfMean
\* return the NaN marker without raising, and for k >= 2 they return m2 / k
\* and m2 / (k (k - 1)) with m2 the sum of squared deviations from the mean;
\* feeding [1, 2, 3] gives mean 2, variance 2/3 and variance of the mean 1/3.
\* With S the sum and Q the sum of squares of the values, the sum of squared
\* deviations is (k Q - S^2) / k.
C23_WelfordStatistics ==
    welford.made =>
        LET k == Len(welford.fed)
            S == sumOf(welford.fed)
            Q == sumOfSquares(welford.fed)
        IN  /\ welford.w.k = k
            /\ last.op = "statistics" =>
                  /\ last.err = NoError
                  /\ k >= 1 => (~ret.value.mean.nan /\ ret.value.mean.num * k = S * ret.value.mean.den)
                  /\ k < 2 => (ret.value.variance.nan /\ ret.value.varianceOfMean.nan)
                  /\ k >= 2 =>
                        /\ ~ret.value.variance.nan
                        /\ ~ret.value.varianceOfMean.nan
                        /\ welford.w.m2[1] * k = (k * Q - S * S) * welford.w.m2[2]
                        /\ ret.value.variance.num * k * k = (k * Q - S * S) * ret.value.variance.den
                        /\ ret.value.varianceOfMean.num * k * k * (k - 1)
                              = (k * Q - S * S) * ret.value.varianceOfMean.den
                  /\ welford.fed = <<1, 2, 3>> =>
                        /\ ret.value.mean = number(<<2, 1>>)
                        /\ ret.value.variance = number(<<2, 3>>)
                        /\ ret.value.varianceOfMean = number(<<1, 3>>)

\* The statistics of [1, 2, 3] were read
C23_Witness ==
    /\ welford.fed = <<1, 2, 3>>
    /\ last.op = "statistics"
    /\ ret.value.variance = number(<<2, 3>>)
    /\ ret.value.varianceOfMean = number(<<1, 3>>)

\* C24: masked field writes are not atomic across the bus transaction.  When
\* two callers interleave the read step and the write step of the setters of
\* two fields of one register (resolution and range in register 0x0F), the
\* update of the caller that writes first is lost: its field holds what it
\* held before.  When each read-modify-write runs without interleaving, both
\* fields hold the values written.
C24_InterleavedSettersLoseAnUpdate ==
    (threads.made /\ threads.at = <<"done", "done">>) =>
        LET serial == threads.order \in {<<1, 1, 2, 2>>, <<2, 2, 1, 1>>}
            written == <<resolution(regs) = threads.value[1], range(regs) = threads.value[2]>>
            kept == <<resolution(regs) = resolution(pre.regs), range(regs) = range(pre.regs)>>
            later == threads.order[4]
        IN  /\ serial => (written[1] /\ written[2])
            /\ ~serial => (written[later] /\ kept[3 - later])

\* Both callers read 0x0F before either wrote: the resolution assigned by the
\* first caller is gone
C24_Witness ==
    /\ threads.made
    /\ threads.order = <<1, 2, 1, 2>>
    /\ threads.value = <<8, 16>>
    /\ resolution(pre.regs) = 14
    /\ resolution(regs) = 14
    /\ range(regs) = 16

\* C25: every symbolic-value table (resolutionDict, rangeDict, odrDict,
\* pwrModeDict, lowPwrOdrDict, intLatchDict, fallModeDict, tapQuietDict,
\* tapShockDict, tapDurDict, zBlockModeDict, orientModeDict) is a bijection
\* onto its bit patterns: distinct symbolic values map to distinct bit
\* patterns, and no bit pattern has a bit set outside the field's mask.
\* Stated for the table of the setter that was called last.
C25_TablesAreBijections ==
    (last.op \in DOMAIN tableOf \ {"units"}) =>
        LET dictionary == tableOf[last.op]
            mask == fieldOf[last.op][2]
        IN  /\ \A value \in DOMAIN dictionary : ClearBits(dictionary[value], mask) = 0
            /\ \A u, v \in DOMAIN dictionary : dictionary[u] = dictionary[v] => u = v

\* C26: in autoOffsetCalibration no sample is read before the canonical
\* measurement configuration is in force: throughout the sampling the device
\* is at 14-bit resolution, range 2 g, units 'G', sampleAveraging 1, 1 ms
\* output data rate, power mode 'Normal', all axes enabled and unswapped,
\* new-data interrupt enabled (hardware bit and cache) and all three hardware
\* offsets zero; every read of the output registers follows a data-ready
\* evaluation that was true, and exactly 100 samples are read for each of the
\* 4 orientations.
C26_SamplingUnderCanonicalConfiguration ==
    (last.op = "autoOffsetCalibration" /\ pc \in {"sampling", "fitting"}) =>
        /\ resolution(regs) = 14
        /\ range(regs) = 2
        /\ sensor.units = "G"
        /\ sensor.sampleAveraging = 1
        /\ outputDataRate(regs) = 1
        /\ powerMode(regs) = {"Normal"}
        /\ BitAnd(regs[\h10], \hE0) = 0
        /\ BitAnd(regs[\h12], \h0F) = 0
        /\ Bit(regs[\h17], 4) = 1
        /\ sensor.newDataIntEnable
        /\ regs[\h38] = 0 /\ regs[\h39] = 0 /\ regs[\h3A] = 0
        /\ accel.ready => accel.status # 0
        /\ accel.i < 100
        /\ pc = "sampling" => accel.sum = [k \in 1..3 |-> accel.i * Readings[Len(cal.p) + 1][k]]
        /\ \A i \in 1..Len(cal.p) : cal.p[i] = Readings[i]
        /\ pc = "fitting" <=> Len(cal.p) = 4

\* The four hundredth sample has been read
C26_Witness ==
    /\ last.op = "autoOffsetCalibration"
    /\ pc = "sampling"
    /\ Len(cal.p) = 3
    /\ accel.i = 99
    /\ accel.ready
    /\ accel.polls = 2
    /\ pre.regs[\h0F] = \hFF

\* C27: constructing MSA301 with a keyword argument that is not a property
\* of the device raises an error with no register written, whatever other
\* (valid) keyword arguments accompany it in the same call.
C27_RejectedConstructionTouchesNothing ==
    (/\ last.op = "__init__"
     /\ \E k \in 1..Len(last.arg) : last.arg[k].key = "bandwidth") =>
        /\ last.err # NoError
        /\ pc = "failed"
        /\ last.writes = <<>>
        /\ regs = pre.regs

\* C28: hardware offsets round-trip through the signed 8-bit register: for
\* every axis and every value v in [-500, 500) mg, offsetCalibration() read
\* after offsetCalibration(axis=v) returns trunc(v / 3.90625) * 3.90625
\* (rounded toward zero, negative values included), and setting one axis
\* leaves the other two axes' read-back values unchanged.  Offsets are in
\* units of 1/320 mg, 3.90625 mg being 1250.
C28_HardwareOffsetRoundTrip ==
    (/\ last.op = "offsetCalibration"
     /\ Len(last.arg) = 1
     /\ last.arg[1].key \in DOMAIN axesOffsetDict
     /\ last.arg[1].value >= -160000
     /\ last.arg[1].value < 160000) =>
        LET v == last.arg[1].value
            back == hardwareOffsets(regs)
        IN  /\ last.err = NoError
            /\ \E n \in -128..127 :
                  /\ back[last.arg[1].key] = n * 1250
                  /\ v >= 0 => (n * 1250 <= v /\ v < (n + 1) * 1250)
                  /\ v < 0 => ((n - 1) * 1250 < v /\ v <= n * 1250)
            /\ \A key \in DOMAIN axesOffsetDict \ {last.arg[1].key} :
                  back[key] = hardwareOffsets(pre.regs)[key]

\* offsetCalibration(yOffset=-3.9) on a device whose offsets read 332.03125:
\* y reads 0 afterwards
C28_Witness ==
    /\ last.op = "offsetCalibration"
    /\ last.arg = <<[key |-> "yOffset", value |-> -1248]>>
    /\ last.err = NoError
    /\ hardwareOffsets(pre.regs)["yOffset"] = 106250
    /\ hardwareOffsets(regs) = [hardwareOffsets(pre.regs) EXCEPT !["yOffset"] = 0]

\* c is num * v / den rounded toward zero, for v >= 0
quantised(v, num, den, c) == den * c <= num * v /\ num * v < den * (c + 1)

\* The register holds code c in the bits of mask, shifted by the factor
\* shift, and the bits outside mask are those of before
holds(register, mask, shift, c) ==
    /\ BitAnd(regs[register], mask) = c * shift
    /\ ClearBits(regs[register], mask) = ClearBits(pre.regs[register], mask)

\* C29: for every value accepted by a numeric setter, the code written fits
\* the field it targets: fallDuration, fallThreshold and activeThr write a
\* code in 0..255, activeDur in 0..3, tapThr in 0..31, fallHyst in 0..3,
\* orientHyst in 0..7 (placed in bits 6:4), zBlockThreshold in 0..15 and
\* hardware offsets in -128..127, so that no accepted value overflows one
\* byte or spills into bits outside the field's mask.  The register then
\* holds the quantised argument itself, not its residue.
C29_NumericCodesFitTheirFields ==
    LET v == last.arg
    IN  last.err = NoError =>
          /\ last.op = "fallDuration" =>
                \E c \in 0..255 : quantised(v - 2, 1, 2, c) /\ regs[_FALL_DUR] = c
          /\ last.op = "fallThreshold" =>
                \E c \in 0..255 : quantised(v, 16, 125, c) /\ regs[_FALL_THR] = c
          /\ last.op = "activeThr" =>
                \E c \in 0..255 : quantised(v, 512, 1024, c) /\ regs[_ACTIV_THR] = c
          /\ last.op = "activeDur" =>
                \E c \in 0..3 : c = v - 1 /\ regs[_ACTIV_DUR] = c
          /\ last.op = "tapThr" =>
                \E c \in 0..31 : quantised(v, 32, 1024, c) /\ regs[_TAP_THR] = c
          /\ last.op = "fallHyst" =>
                \E c \in 0..3 : 125 * c = v /\ holds(_FALL_HYS, _FALL_HYST_MASK, 1, c)
          /\ last.op = "orientHyst" =>
                \E c \in 0..7 : quantised(v, 16, 1000, c) /\ holds(_ORIENT_INT_SETTING, _ORIENT_HYST_MASK, 16, c)
          /\ last.op = "zBlockThreshold" =>
                \E c \in 0..15 : quantised(v, 2, 125, c) /\ regs[_Z_BLOCK] = c
          /\ last.op = "offsetCalibration" =>
                \A k \in 1..Len(v) :
                    (\A j \in (k + 1)..Len(v) : v[j].key # v[k].key) =>
                        \E c \in -128..127 :
                            /\ IF v[k].value >= 0 THEN quantised(v[k].value, 1, 1250, c)
                                                  ELSE quantised(-v[k].value, 1, 1250, -c)
                            /\ regs[axesOffsetDict[v[k].key]] = c % 256

\* fallThreshold = 1999 was accepted and wrote the largest code
C29_Witness ==
    /\ last.op = "fallThreshold"
    /\ last.arg = 1999
    /\ last.err = NoError
    /\ regs[_FALL_THR] = 255
    /\ pre.regs[_FALL_THR] = \h55

\* C30: a status result is a snapshot: the fields of an object previously
\* returned by motionInterrupts, tapActivityStatus or orientationStatus and
\* stored by the caller do not change when the same accessor is read again
\* later, after the underlying status register has changed.
C30_StatusResultIsSnapshot ==
    \A op \in held.kept : held.status[op] = held.seen[op]

============================================================================
